---- MODULE Spec2Model ----
(***************************************************************************)
(* State-machine model of the zksync-ethers signing pipeline:              *)
(*   - Wallet (src/src/wallet.ts): populateTransaction, signTransaction,   *)
(*     sendTransaction, with the fee inference of _populateTransaction;    *)
(*   - SmartAccount (src/src/smart-account.ts): connect,                   *)
(*     populateTransaction, signTransaction, sendTransaction.              *)
(* An optional field is a set with at most one element: Null is the absent *)
(* field (null/undefined), Some(v) a field holding v.                      *)
(***************************************************************************)
EXTENDS Integers, Sequences, FiniteSets, TLC

Null == {}
Some(v) == {v}
Val(f) == CHOOSE x \in f : TRUE
\* the ??= operator: keep a present value, default an absent one
OrElse(f, d) == IF f = Null THEN d ELSE f

(***************************************************************************)
(* Bounds of the model                                                     *)
(***************************************************************************)
\* largest number of optional fields a sparse request sets
MaxFields == 3
\* largest number of SmartAccount instances
MaxAccounts == 4
\* largest number of keys of a multisig account
MaxKeys == 3

(***************************************************************************)
(* Program constants and the test network's answers                        *)
(***************************************************************************)
EIP712_TX_TYPE == 113
DEFAULT_GAS_PER_PUBDATA_LIMIT == 50000
\* the length in bytes of one ECDSA signature
ECDSA_SIGNATURE_LENGTH == 65
ADDRESS == "0x36615Cf349d7F6344891B1e7CA7C72883F5dc049"
RECEIVER == "0xa61464658AfeAf65CccaaFD3a512b69A83B77618"
\* the network the provider is connected to: its chain id and what it
\* answers to getGasPrice(), estimateGas() and getNonce("pending")
Network == [chainId |-> 270, gasPrice |-> 250000000, gasEstimate |-> 154379,
            pendingNonce |-> 42]

(***************************************************************************)
(* Transactions                                                            *)
(***************************************************************************)
TxFields == {"to", "from", "nonce", "gasLimit", "gasPrice", "maxFeePerGas",
             "maxPriorityFeePerGas", "value", "data", "chainId", "type",
             "customData"}

EmptyTx == [f \in TxFields |-> Null]

\* customData = {} (Eip712Meta with nothing set)
EmptyMeta == [gasPerPubdata |-> Null, factoryDeps |-> Null,
              paymasterParams |-> Null, customSignature |-> Null]

\* the customData values a caller supplies
MetaChoices == {EmptyMeta,
                [EmptyMeta EXCEPT !.gasPerPubdata = Some(800)],
                [EmptyMeta EXCEPT !.factoryDeps = Some(<<"0xc0de">>)]}

\* every request over the field values below
AllRequests ==
    [to : {Some(RECEIVER)},
     from : {Null, Some(ADDRESS), Some(RECEIVER)},
     nonce : {Null, Some(7)},
     gasLimit : {Null, Some(21000)},
     gasPrice : {Null, Some(300)},
     maxFeePerGas : {Null, Some(500)},
     maxPriorityFeePerGas : {Null, Some(100)},
     value : {Null, Some(7000000)},
     data : {Null, Some("0xab")},
     chainId : {Null, Some(Network.chainId), Some(1)},
     type : {Null, Some(0), Some(1), Some(2), Some(EIP712_TX_TYPE)},
     customData : {Null} \cup {Some(m) : m \in MetaChoices}]

SetFields(tx) == {f \in TxFields \ {"to"} : tx[f] # Null}

\* TransactionRequest: the sparse requests a caller passes
Requests == {r \in AllRequests : Cardinality(SetFields(r)) <= MaxFields}

\* the answers getFeeData() can give: each of the three fields may be absent
FeeDataChoices ==
    [gasPrice : {Null, Some(240000000)},
     maxFeePerGas : {Null, Some(900)},
     maxPriorityFeePerGas : {Null, Some(200)}]

(***************************************************************************)
(* Wallet: pure steps of populateTransaction (src/src/wallet.ts)           *)
(***************************************************************************)
\* copyRequest(tx): a fresh object carrying the fields of the request
copyRequest(tx) == [f \in TxFields |-> tx[f]]

\* populate(signer, tx): copy the request, default `from` to the signer
populate(address, tx) ==
    LET pop == copyRequest(tx)
    IN  [pop EXCEPT !.from = OrElse(@, Some(address))]

\* ethers AbstractSigner.populateTransaction keeps the check that
\* _populateTransaction removed: an explicit `from` must be the signer
BaseFromMismatch(address, tx) == tx.from # Null /\ tx.from # Some(address)

\* faulty variant: the legacy default of lines 218-221 is left out
DefaultTypeNever(transaction) == transaction

\* lines 218-221: a request without type and customData becomes legacy
DefaultType(transaction) ==
    IF transaction.type = Null /\ transaction.customData = Null
    THEN [transaction EXCEPT !.type = Some(0)]
    ELSE transaction

\* lines 222 and 236: the request is left to the base wallet
IsBasePath(transaction) ==
    transaction.customData = Null /\ transaction.type # Some(EIP712_TX_TYPE)

\* faulty variant: the chain id of the request is not compared
ChainIdNeverMismatch(pop, networkChainId) == FALSE

\* lines 110-115: a supplied chain id must be the network's
ChainIdMismatch(pop, networkChainId) ==
    pop.chainId # Null /\ pop.chainId # Some(networkChainId)

hasEip1559(pop) == pop.maxFeePerGas # Null \/ pop.maxPriorityFeePerGas # Null

\* faulty variant: only gasPrice is checked against the EIP-1559 fields
ConflictingFeeFieldsLegacyOnly(pop) ==
    pop.gasPrice # Null /\ (pop.type = Some(2) \/ hasEip1559(pop))

\* lines 117-123: legacy and EIP-1559 pricing are mixed
ConflictingFeeFields(pop) ==
    \/ pop.gasPrice # Null /\ (pop.type = Some(2) \/ hasEip1559(pop))
    \/ pop.type \in {Some(0), Some(1)} /\ hasEip1559(pop)

\* faulty variant: only an explicit type 2 counts as fully formed
FullyFormed1559Typed(pop) ==
    /\ pop.type = Some(2)
    /\ pop.maxFeePerGas # Null
    /\ pop.maxPriorityFeePerGas # Null

\* line 125: fully-formed EIP-1559 transaction (getFeeData is skipped)
FullyFormed1559(pop) ==
    /\ pop.type \in {Some(2), Null}
    /\ pop.maxFeePerGas # Null
    /\ pop.maxPriorityFeePerGas # Null

Ok(tx) == [err |-> Null, tx |-> tx]
Fail(e) == [err |-> Some(e), tx |-> EmptyTx]

\* faulty variant: the network's gas price replaces the caller's
InferLegacyOverwrite(pop, fd) ==
    IF fd.gasPrice = Null
    THEN Fail("UnsupportedOperation")
    ELSE Ok([pop EXCEPT !.gasPrice = fd.gasPrice])

\* lines 129-139: explicit legacy or EIP-2930 transaction
InferLegacy(pop, fd) ==
    IF fd.gasPrice = Null
    THEN Fail("UnsupportedOperation")
    ELSE Ok([pop EXCEPT !.gasPrice = OrElse(@, fd.gasPrice)])

\* faulty variant: a supplied gasPrice is kept next to the fee data's fields
InferUpgradeKeepGasPrice(pop, fd) ==
    Ok([pop EXCEPT !.type = Some(2),
                   !.maxFeePerGas = OrElse(@, fd.maxFeePerGas),
                   !.maxPriorityFeePerGas = OrElse(@, fd.maxPriorityFeePerGas)])

\* lines 149-173: untyped transaction on a network that supports EIP-1559
InferUpgrade(pop, fd) ==
    IF pop.gasPrice # Null
    THEN Ok([pop EXCEPT !.type = Some(2),
                        !.gasPrice = Null,
                        !.maxFeePerGas = pop.gasPrice,
                        !.maxPriorityFeePerGas = pop.gasPrice])
    ELSE Ok([pop EXCEPT !.type = Some(2),
                        !.maxFeePerGas = OrElse(@, fd.maxFeePerGas),
                        !.maxPriorityFeePerGas =
                             OrElse(@, fd.maxPriorityFeePerGas)])

\* faulty variant: EIP-1559 fields of the caller are let through
InferDowngradeLenient(pop, fd) ==
    IF fd.gasPrice # Null
    THEN Ok([pop EXCEPT !.gasPrice = OrElse(@, fd.gasPrice),
                        !.type = Some(0)])
    ELSE Fail("UnsupportedOperation")

\* lines 175-194: untyped transaction on a network without EIP-1559
InferDowngrade(pop, fd) ==
    IF fd.gasPrice # Null
    THEN IF hasEip1559(pop)
         THEN Fail("UnsupportedOperation")
         ELSE Ok([pop EXCEPT !.gasPrice = OrElse(@, fd.gasPrice),
                             !.type = Some(0)])
    ELSE Fail("UnsupportedOperation")

\* lines 196-207: explicit EIP-1559 transaction
InferExplicit1559(pop, fd) ==
    Ok([pop EXCEPT !.maxFeePerGas = OrElse(@, fd.maxFeePerGas),
                   !.maxPriorityFeePerGas = OrElse(@, fd.maxPriorityFeePerGas)])

\* lines 129-208: fee inference once getFeeData() has answered fd
InferFees(pop, fd) ==
    IF pop.type \in {Some(0), Some(1)}
    THEN InferLegacy(pop, fd)
    ELSE IF pop.type = Null
    THEN IF fd.maxFeePerGas # Null /\ fd.maxPriorityFeePerGas # Null
         THEN InferUpgrade(pop, fd)
         ELSE InferDowngrade(pop, fd)
    ELSE IF pop.type = Some(2)
    THEN InferExplicit1559(pop, fd)
    ELSE Ok(pop)

\* AdapterL2._fillCustomData: merge customData with the protocol defaults
fillCustomData(data) ==
    [data EXCEPT !.gasPerPubdata = OrElse(@, Some(DEFAULT_GAS_PER_PUBDATA_LIMIT)),
                 !.factoryDeps = OrElse(@, Some(<<>>))]

\* faulty variant: the type of the inner result is kept
FinishCustomKeepType(populated, transaction) ==
    [populated EXCEPT
        !.value = OrElse(@, Some(0)),
        !.data = OrElse(@, Some("0x")),
        !.customData = Some(fillCustomData(
                           Val(OrElse(transaction.customData, Some(EmptyMeta)))))]

\* faulty variant: value and data are forced to their defaults
FinishCustomForce(populated, transaction) ==
    [populated EXCEPT
        !.type = Some(EIP712_TX_TYPE),
        !.value = Some(0),
        !.data = Some("0x"),
        !.customData = Some(fillCustomData(
                           Val(OrElse(transaction.customData, Some(EmptyMeta)))))]

\* lines 227-230: what populateTransaction sets on the custom path before
\* it asks for the gas price
FinishCustom(populated, transaction) ==
    [populated EXCEPT
        !.type = Some(EIP712_TX_TYPE),
        !.value = OrElse(@, Some(0)),
        !.data = OrElse(@, Some("0x")),
        !.customData = Some(fillCustomData(
                           Val(OrElse(transaction.customData, Some(EmptyMeta)))))]

(***************************************************************************)
(* Digest/encoding layer (signer.ts, utils.ts)                             *)
(***************************************************************************)
ZeroAddress == "0x0000000000000000000000000000000000000000"

\* the customData of a transaction, {} when it has none
MetaOf(tx) == Val(OrElse(tx.customData, Some(EmptyMeta)))

\* faulty variant: an absent priority fee is 0
getSignInputZeroTip(tx) ==
    LET meta == MetaOf(tx)
        maxFeePerGas == OrElse(tx.maxFeePerGas, OrElse(tx.gasPrice, Some(0)))
        maxPriorityFeePerGas == OrElse(tx.maxPriorityFeePerGas, Some(0))
    IN  [txType |-> Val(OrElse(tx.type, Some(0))),
         from |-> Val(OrElse(tx.from, Some(ZeroAddress))),
         to |-> Val(OrElse(tx.to, Some(ZeroAddress))),
         gasLimit |-> Val(OrElse(tx.gasLimit, Some(0))),
         gasPerPubdataByteLimit |->
             Val(OrElse(meta.gasPerPubdata, Some(DEFAULT_GAS_PER_PUBDATA_LIMIT))),
         maxFeePerGas |-> Val(maxFeePerGas),
         maxPriorityFeePerGas |-> Val(maxPriorityFeePerGas),
         paymaster |-> IF meta.paymasterParams = Null THEN ZeroAddress
                       ELSE Val(meta.paymasterParams).paymaster,
         nonce |-> Val(OrElse(tx.nonce, Some(0))),
         value |-> Val(OrElse(tx.value, Some(0))),
         data |-> Val(OrElse(tx.data, Some("0x"))),
         factoryDeps |-> Val(OrElse(meta.factoryDeps, Some(<<>>))),
         paymasterInput |-> IF meta.paymasterParams = Null THEN "0x"
                            ELSE Val(meta.paymasterParams).paymasterInput]

\* EIP712Signer.getSignInput: the thirteen-field struct that is signed
getSignInput(tx) ==
    LET meta == MetaOf(tx)
        maxFeePerGas == OrElse(tx.maxFeePerGas, OrElse(tx.gasPrice, Some(0)))
        maxPriorityFeePerGas == OrElse(tx.maxPriorityFeePerGas, maxFeePerGas)
    IN  [txType |-> Val(OrElse(tx.type, Some(0))),
         from |-> Val(OrElse(tx.from, Some(ZeroAddress))),
         to |-> Val(OrElse(tx.to, Some(ZeroAddress))),
         gasLimit |-> Val(OrElse(tx.gasLimit, Some(0))),
         gasPerPubdataByteLimit |->
             Val(OrElse(meta.gasPerPubdata, Some(DEFAULT_GAS_PER_PUBDATA_LIMIT))),
         maxFeePerGas |-> Val(maxFeePerGas),
         maxPriorityFeePerGas |-> Val(maxPriorityFeePerGas),
         paymaster |-> IF meta.paymasterParams = Null THEN ZeroAddress
                       ELSE Val(meta.paymasterParams).paymaster,
         nonce |-> Val(OrElse(tx.nonce, Some(0))),
         value |-> Val(OrElse(tx.value, Some(0))),
         data |-> Val(OrElse(tx.data, Some("0x"))),
         factoryDeps |-> Val(OrElse(meta.factoryDeps, Some(<<>>))),
         paymasterInput |-> IF meta.paymasterParams = Null THEN "0x"
                            ELSE Val(meta.paymasterParams).paymasterInput]

\* the typed-data hash of a sign input under the domain of a chain; the
\* hash is collision free, so the digest is the pair that was hashed
TypedDataHash(chainId, input) ==
    [domain |-> [name |-> "zkSync", version |-> "2", chainId |-> chainId],
     message |-> input]

\* faulty variant: an absent chain id is taken to be 0
getSignedDigestAnyChain(tx) ==
    Some(TypedDataHash(Val(OrElse(tx.chainId, Some(0))), getSignInput(tx)))

\* EIP712Signer.getSignedDigest: Null when the chain id is not set
\* ("Transaction chainId isn't set!")
getSignedDigest(tx) ==
    IF tx.chainId = Null THEN Null
    ELSE Some(TypedDataHash(Val(tx.chainId), getSignInput(tx)))

\* one 65-byte ECDSA signature of a digest under a key
EcdsaSign(key, digest) == [key |-> key, digest |-> digest]

\* serializeEip712: the wire envelope, fields defaulted as in the sign input
serializeEip712(tx) ==
    LET meta == MetaOf(tx)
        input == getSignInput(tx)
    IN  [txType |-> EIP712_TX_TYPE,
         nonce |-> input.nonce,
         maxPriorityFeePerGas |-> input.maxPriorityFeePerGas,
         maxFeePerGas |-> input.maxFeePerGas,
         gasLimit |-> input.gasLimit,
         to |-> tx.to,
         value |-> input.value,
         data |-> input.data,
         chainId |-> tx.chainId,
         from |-> tx.from,
         gasPerPubdata |-> input.gasPerPubdataByteLimit,
         factoryDeps |-> input.factoryDeps,
         customSignature |-> meta.customSignature,
         paymaster |-> input.paymaster,
         paymasterInput |-> input.paymasterInput]

\* ethers BaseWallet.signTransaction: the legacy/EIP-1559 envelope, signed
\* with the wallet's key; `from` is not part of it
BaseSerialize(key, tx) ==
    LET unsigned == [f \in TxFields \ {"from", "customData"} |-> tx[f]]
    IN  [unsigned |-> unsigned, signature |-> EcdsaSign(key, unsigned)]

(***************************************************************************)
(* State                                                                   *)
(***************************************************************************)
VARIABLES
    wProvider,   \* Wallet.provider is set
    feeData,     \* what the network answers to getFeeData()
    wOp,         \* the Wallet method the caller invoked
    wPc,         \* where that call stands
    wInSign,     \* populateTransaction was entered from signTransaction
    wPath,       \* "base" or "custom": the branch populateTransaction took
    heap,        \* the request objects: req (the caller's), ptx (sendTransaction's)
    cur,         \* the object the running method was handed
    req0,        \* the caller's request as it was when the call was made
    wPop,        \* the transaction being populated
    wLog,        \* the provider operations performed, in order
    wErr,        \* the error the call failed with
    wResult,     \* what populateTransaction returned to the caller
    wBytes,      \* what signTransaction returned
    wSent,       \* what was handed to provider.broadcastTransaction
    accounts,    \* the SmartAccount instances, in the order they were built
    connects,    \* the connect() calls made: receiver, provider, result
    calls,       \* the SmartAccount method calls: position and locals
    builderLog,  \* the invocations of a transaction builder
    signerLog,   \* the invocations of a payload signer
    broadcastLog, \* what SmartAccounts handed to provider.broadcastTransaction
    queryLog,    \* the provider queries SmartAccounts made
    sOp,         \* the EIP712Signer static method that was called
    sTx,         \* the transaction it was called with
    sOut,        \* what it returned
    sErr         \* the error it failed with

wvars == <<wProvider, feeData, wOp, wPc, wInSign, wPath, heap, cur, req0, wPop,
           wLog, wErr, wResult, wBytes, wSent>>

avars == <<accounts, connects, calls, builderLog, signerLog, broadcastLog,
           queryLog>>

svars == <<sOp, sTx, sOut, sErr>>

vars == <<wvars, avars, svars>>

WalletInit ==
    /\ wProvider \in BOOLEAN
    /\ feeData \in FeeDataChoices
    /\ wOp = "none"
    /\ wPc = "idle"
    /\ wInSign = FALSE
    /\ wPath = "none"
    /\ heap = [req |-> EmptyTx, ptx |-> EmptyTx]
    /\ cur = "req"
    /\ req0 = EmptyTx
    /\ wPop = EmptyTx
    /\ wLog = <<>>
    /\ wErr = Null
    /\ wResult = Null
    /\ wBytes = Null
    /\ wSent = <<>>

PRIVATE_KEY == "0x7726827caac94a7f9e1b160f7ea819f172f7b6f9d2a97f992c38edeab82d4110"

\* the call throws e
Throw(e) ==
    /\ wPc' = "failed"
    /\ wErr' = Some(e)

(***************************************************************************)
(* Wallet operations                                                       *)
(***************************************************************************)
\* the caller invokes populateTransaction, signTransaction or
\* sendTransaction with a request; sendTransaction starts by populating it
WalletCall(op, r) ==
    /\ wPc = "idle"
    /\ wOp' = op
    /\ heap' = [heap EXCEPT !.req = r]
    /\ req0' = r
    /\ cur' = "req"
    /\ wPc' = IF op = "signTransaction" THEN "signTransaction"
                                        ELSE "populateTransaction"
    /\ UNCHANGED avars
    /\ UNCHANGED svars
    /\ UNCHANGED <<wProvider, feeData, wInSign, wPath, wPop, wLog, wErr,
                   wResult, wBytes, wSent>>

\* faulty variant: the request is copied before the provider is looked for
PopulateEnterCopyFirst ==
    /\ wPc = "populateTransaction"
    /\ LET transaction == DefaultType(heap[cur])
           base == IsBasePath(transaction)
       IN  /\ heap' = [heap EXCEPT ![cur] = transaction]
           /\ wPath' = IF base THEN "base" ELSE "custom"
           /\ wPop' = populate(ADDRESS, transaction)
           /\ IF ~wProvider
              THEN Throw("MissingProvider")
              ELSE IF base /\ BaseFromMismatch(ADDRESS, transaction)
              THEN Throw("FromAddressMismatch")
              ELSE /\ wPc' = "getNonce"
                   /\ UNCHANGED wErr
    /\ UNCHANGED avars
    /\ UNCHANGED svars
    /\ UNCHANGED <<wProvider, feeData, wOp, wInSign, cur, req0, wLog, wResult,
                   wBytes, wSent>>

\* populateTransaction up to its first provider call: default the type,
\* choose the branch, check the provider, copy the request
PopulateEnter ==
    /\ wPc = "populateTransaction"
    /\ LET transaction == DefaultType(heap[cur])
           base == IsBasePath(transaction)
       IN  /\ heap' = [heap EXCEPT ![cur] = transaction]
           /\ wPath' = IF base THEN "base" ELSE "custom"
           /\ IF ~wProvider
              THEN Throw("MissingProvider") /\ UNCHANGED wPop
              ELSE IF base /\ BaseFromMismatch(ADDRESS, transaction)
              THEN Throw("FromAddressMismatch") /\ UNCHANGED wPop
              ELSE /\ wPop' = populate(ADDRESS, transaction)
                   /\ wPc' = "getNonce"
                   /\ UNCHANGED wErr
    /\ UNCHANGED avars
    /\ UNCHANGED svars
    /\ UNCHANGED <<wProvider, feeData, wOp, wInSign, cur, req0, wLog, wResult,
                   wBytes, wSent>>

\* faulty variant: the pending nonce is always fetched
GetNonceAlways ==
    /\ wPc = "getNonce"
    /\ wLog' = Append(wLog, "getNonce")
    /\ \/ /\ wPop' = [wPop EXCEPT !.nonce = Some(Network.pendingNonce)]
          /\ wPc' = "estimateGas"
          /\ UNCHANGED wErr
       \/ Throw("ProviderError") /\ UNCHANGED wPop
    /\ UNCHANGED avars
    /\ UNCHANGED svars
    /\ UNCHANGED <<wProvider, feeData, wOp, wInSign, wPath, heap, cur, req0,
                   wResult, wBytes, wSent>>

\* lines 100-102: the pending nonce is fetched when the request has none
GetNonce ==
    /\ wPc = "getNonce"
    /\ IF wPop.nonce # Null
       THEN /\ wPc' = "estimateGas"
            /\ UNCHANGED <<wPop, wLog, wErr>>
       ELSE /\ wLog' = Append(wLog, "getNonce")
            /\ \/ /\ wPop' = [wPop EXCEPT !.nonce = Some(Network.pendingNonce)]
                  /\ wPc' = "estimateGas"
                  /\ UNCHANGED wErr
               \/ Throw("ProviderError") /\ UNCHANGED wPop
    /\ UNCHANGED avars
    /\ UNCHANGED svars
    /\ UNCHANGED <<wProvider, feeData, wOp, wInSign, wPath, heap, cur, req0,
                   wResult, wBytes, wSent>>

\* lines 104-106: the gas limit is estimated when the request has none
EstimateGas ==
    /\ wPc = "estimateGas"
    /\ IF wPop.gasLimit # Null
       THEN /\ wPc' = "getNetwork"
            /\ UNCHANGED <<wPop, wLog, wErr>>
       ELSE /\ wLog' = Append(wLog, "estimateGas")
            /\ \/ /\ wPop' = [wPop EXCEPT !.gasLimit = Some(Network.gasEstimate)]
                  /\ wPc' = "getNetwork"
                  /\ UNCHANGED wErr
               \/ Throw("ProviderError") /\ UNCHANGED wPop
    /\ UNCHANGED avars
    /\ UNCHANGED svars
    /\ UNCHANGED <<wProvider, feeData, wOp, wInSign, wPath, heap, cur, req0,
                   wResult, wBytes, wSent>>

\* populateTransaction returns tx: to signTransaction when it was entered
\* from there, into sendTransaction's populatedTx, or to the caller
PopulateReturn(tx) ==
    /\ wErr' = wErr
    /\ IF wInSign
       THEN /\ wPop' = tx
            /\ wPc' = "eip712Sign"
            /\ UNCHANGED <<heap, cur, wResult>>
       ELSE IF wOp = "sendTransaction"
       THEN /\ wPop' = tx
            /\ heap' = [heap EXCEPT !.ptx = tx]
            /\ cur' = "ptx"
            /\ wPc' = "signTransaction"
            /\ UNCHANGED wResult
       ELSE /\ wPop' = tx
            /\ wResult' = Some(tx)
            /\ wPc' = "done"
            /\ UNCHANGED <<heap, cur>>

\* the inner populate (super.populateTransaction or _populateTransaction)
\* returned pop: the base path returns it, the custom path goes on with it
AfterInner(pop) ==
    IF wPath = "base"
    THEN PopulateReturn(pop)
    ELSE /\ wPop' = pop
         /\ wPc' = "finishCustom"
         /\ UNCHANGED <<heap, cur, wResult, wErr>>

\* a step of populateTransaction throws e
PopulateThrow(e) == Throw(e) /\ UNCHANGED <<wPop, heap, cur, wResult>>

\* lines 108-128: the network is asked for its chain id; the chain id and
\* the fee fields are checked; a fully-formed EIP-1559 request is done
GetNetwork ==
    /\ wPc = "getNetwork"
    /\ wLog' = Append(wLog, "getNetwork")
    /\ \/ PopulateThrow("ProviderError")
       \/ LET pop == [wPop EXCEPT !.chainId = OrElse(@, Some(Network.chainId))]
          IN  IF ChainIdMismatch(wPop, Network.chainId)
              THEN PopulateThrow("ChainIdMismatch")
              ELSE IF ConflictingFeeFields(pop)
              THEN PopulateThrow("ConflictingFeeFields")
              ELSE IF FullyFormed1559(pop)
              THEN AfterInner([pop EXCEPT !.type = Some(2)])
              ELSE /\ wPop' = pop
                   /\ wPc' = "getFeeData"
                   /\ UNCHANGED <<heap, cur, wResult, wErr>>
    /\ UNCHANGED avars
    /\ UNCHANGED svars
    /\ UNCHANGED <<wProvider, feeData, wOp, wInSign, wPath, req0, wBytes, wSent>>

\* lines 129-210: the fee data is fetched and the fee fields are inferred
GetFeeData ==
    /\ wPc = "getFeeData"
    /\ wLog' = Append(wLog, "getFeeData")
    /\ \/ PopulateThrow("ProviderError")
       \/ LET r == InferFees(wPop, feeData)
          IN  IF r.err # Null
              THEN PopulateThrow(Val(r.err))
              ELSE AfterInner(r.tx)
    /\ UNCHANGED avars
    /\ UNCHANGED svars
    /\ UNCHANGED <<wProvider, feeData, wOp, wInSign, wPath, req0, wBytes, wSent>>

\* lines 225-231: the custom path sets the type and the defaults on what
\* _populateTransaction returned, then asks for the gas price
FinishCustomStep ==
    /\ wPc = "finishCustom"
    /\ wPop' = FinishCustom(wPop, heap[cur])
    /\ wPc' = "getGasPrice"
    /\ UNCHANGED avars
    /\ UNCHANGED svars
    /\ UNCHANGED <<wProvider, feeData, wOp, wInSign, wPath, heap, cur, req0,
                   wLog, wErr, wResult, wBytes, wSent>>

\* faulty variant: a gas price already set is kept (??=)
GetGasPriceKeep ==
    /\ wPc = "getGasPrice"
    /\ wLog' = Append(wLog, "getGasPrice")
    /\ \/ PopulateThrow("ProviderError")
       \/ PopulateReturn([wPop EXCEPT !.gasPrice = OrElse(@, Some(Network.gasPrice))])
    /\ UNCHANGED avars
    /\ UNCHANGED svars
    /\ UNCHANGED <<wProvider, feeData, wOp, wInSign, wPath, req0, wBytes, wSent>>

\* lines 231-232: the gas price is fetched and replaces any gas price
GetGasPrice ==
    /\ wPc = "getGasPrice"
    /\ wLog' = Append(wLog, "getGasPrice")
    /\ \/ PopulateThrow("ProviderError")
       \/ PopulateReturn([wPop EXCEPT !.gasPrice = Some(Network.gasPrice)])
    /\ UNCHANGED avars
    /\ UNCHANGED svars
    /\ UNCHANGED <<wProvider, feeData, wOp, wInSign, wPath, req0, wBytes, wSent>>

\* signTransaction returns bytes: to sendTransaction or to the caller
SignReturn(bytes) ==
    /\ wBytes' = Some(bytes)
    /\ wPc' = IF wOp = "sendTransaction" THEN "broadcast" ELSE "done"
    /\ UNCHANGED wErr

\* lines 236-244: signTransaction chooses its branch; the custom branch
\* sets from and customData on the request and populates it
SignEnter ==
    /\ wPc = "signTransaction"
    /\ LET transaction == heap[cur]
       IN  IF IsBasePath(transaction)
           THEN /\ wPc' = IF transaction.type = Some(2)
                              /\ transaction.maxFeePerGas = Null
                           THEN "signGasPrice" ELSE "superSign"
                /\ UNCHANGED <<heap, wInSign>>
           ELSE /\ heap' = [heap EXCEPT ![cur] =
                               [transaction EXCEPT
                                   !.from = OrElse(@, Some(ADDRESS)),
                                   !.customData = OrElse(@, Some(EmptyMeta))]]
                /\ wInSign' = TRUE
                /\ wPc' = "populateTransaction"
    /\ UNCHANGED avars
    /\ UNCHANGED svars
    /\ UNCHANGED <<wProvider, feeData, wOp, wPath, cur, req0, wPop, wLog, wErr,
                   wResult, wBytes, wSent>>

\* faulty variant: the gas price is stored as the legacy gasPrice
SignGasPriceLegacy ==
    /\ wPc = "signGasPrice"
    /\ IF ~wProvider
       THEN Throw("TypeError") /\ UNCHANGED <<heap, wLog>>
       ELSE /\ wLog' = Append(wLog, "getGasPrice")
            /\ \/ Throw("ProviderError") /\ UNCHANGED heap
               \/ /\ heap' = [heap EXCEPT ![cur].gasPrice =
                                  Some(Network.gasPrice)]
                  /\ wPc' = "superSign"
                  /\ UNCHANGED wErr
    /\ UNCHANGED avars
    /\ UNCHANGED svars
    /\ UNCHANGED <<wProvider, feeData, wOp, wInSign, wPath, cur, req0, wPop,
                   wResult, wBytes, wSent>>

\* line 238: a type-2 request without maxFeePerGas gets the gas price
SignGasPrice ==
    /\ wPc = "signGasPrice"
    /\ IF ~wProvider
       THEN Throw("TypeError") /\ UNCHANGED <<heap, wLog>>
       ELSE /\ wLog' = Append(wLog, "getGasPrice")
            /\ \/ Throw("ProviderError") /\ UNCHANGED heap
               \/ /\ heap' = [heap EXCEPT ![cur].maxFeePerGas =
                                  Some(Network.gasPrice)]
                  /\ wPc' = "superSign"
                  /\ UNCHANGED wErr
    /\ UNCHANGED avars
    /\ UNCHANGED svars
    /\ UNCHANGED <<wProvider, feeData, wOp, wInSign, wPath, cur, req0, wPop,
                   wResult, wBytes, wSent>>

\* line 240: the base wallet checks `from` and signs the request as given
SuperSign ==
    /\ wPc = "superSign"
    /\ IF BaseFromMismatch(ADDRESS, heap[cur])
       THEN Throw("FromAddressMismatch") /\ UNCHANGED wBytes
       ELSE SignReturn(BaseSerialize(PRIVATE_KEY, heap[cur]))
    /\ UNCHANGED avars
    /\ UNCHANGED svars
    /\ UNCHANGED <<wProvider, feeData, wOp, wInSign, wPath, heap, cur, req0,
                   wPop, wLog, wResult, wSent>>

\* EIP712Signer.sign: the wallet key signs the typed-data hash of the
\* transaction under the domain of the wallet's network
eip712Sign(key, chainId, tx) ==
    <<EcdsaSign(key, TypedDataHash(chainId, getSignInput(tx)))>>

\* faulty variant: customData is replaced by the signature alone
WithSignatureOnly(tx, sig) ==
    [tx EXCEPT !.customData =
        Some([EmptyMeta EXCEPT !.customSignature = Some(sig)])]

\* the transaction with customData.customSignature set to sig
WithSignature(tx, sig) ==
    [tx EXCEPT !.customData =
        Some([MetaOf(tx) EXCEPT !.customSignature = Some(sig)])]

\* lines 246-248: the populated transaction is signed and serialized
Eip712Sign ==
    /\ wPc = "eip712Sign"
    /\ LET populated ==
               WithSignature(wPop, eip712Sign(PRIVATE_KEY, Network.chainId, wPop))
       IN  /\ wPop' = populated
           /\ SignReturn(serializeEip712(populated))
    /\ UNCHANGED avars
    /\ UNCHANGED svars
    /\ UNCHANGED <<wProvider, feeData, wOp, wInSign, wPath, heap, cur, req0,
                   wLog, wResult, wSent>>

\* line 254: the signed transaction is broadcast
Broadcast ==
    /\ wPc = "broadcast"
    /\ wLog' = Append(wLog, "broadcastTransaction")
    /\ wSent' = Append(wSent, Val(wBytes))
    /\ \/ wPc' = "done" /\ UNCHANGED wErr
       \/ Throw("ProviderError")
    /\ UNCHANGED avars
    /\ UNCHANGED svars
    /\ UNCHANGED <<wProvider, feeData, wOp, wInSign, wPath, heap, cur, req0,
                   wPop, wResult, wBytes>>

(***************************************************************************)
(* SmartAccount (src/src/smart-account.ts)                                 *)
(***************************************************************************)
\* the strategies of smart-account-utils and a caller-supplied builder
\* (tests: `transactionBuilder: async () => { return {}; }`)
Builders == {"populateTransaction", "populateTransactionMultisig", "custom"}
PayloadSigners == {"signPayloadWithECDSA", "signPayloadWithMultipleECDSA"}

\* the keys of the two owners of the multisig account
OWNER1_KEY == "owner1.signingKey"
OWNER2_KEY == "owner2.signingKey"

\* the Provider objects an account can be bound to
Providers == {"providerA", "providerB"}

\* the SmartAccountSinger configurations accounts are built from; a secret
\* is the sequence of its keys
SignerConfigs ==
    {[address |-> ADDRESS, secret |-> <<PRIVATE_KEY>>,
      payloadSigner |-> Null, transactionBuilder |-> Null],
     [address |-> ADDRESS, secret |-> <<OWNER1_KEY, OWNER2_KEY>>,
      payloadSigner |-> Some("signPayloadWithMultipleECDSA"),
      transactionBuilder |-> Some("populateTransactionMultisig")],
     [address |-> ADDRESS, secret |-> <<PRIVATE_KEY>>,
      payloadSigner |-> Null, transactionBuilder |-> Some("custom")]}

\* constructor (lines 56-64): absent strategies default to the ECDSA ones
SmartAccount(signer, provider) ==
    [address |-> signer.address,
     secret |-> signer.secret,
     provider |-> provider,
     payloadSigner |-> Val(OrElse(signer.payloadSigner,
                                  Some("signPayloadWithECDSA"))),
     transactionBuilder |-> Val(OrElse(signer.transactionBuilder,
                                       Some("populateTransaction")))]

\* faulty variant: the strategies are not handed on
connectDefaults(this, provider) ==
    SmartAccount([address |-> this.address,
                  secret |-> this.secret,
                  payloadSigner |-> Null,
                  transactionBuilder |-> Null],
                 provider)

\* connect (lines 73-83): a new instance from the receiver's fields
connect(this, provider) ==
    SmartAccount([address |-> this.address,
                  secret |-> this.secret,
                  payloadSigner |-> Some(this.payloadSigner),
                  transactionBuilder |-> Some(this.transactionBuilder)],
                 provider)

\* faulty variant: the builder does not ask the provider for the gas price
BuildCustomNoGasPrice(tx, provider) ==
    IF provider = Null
    THEN {Fail("MissingProvider")}
    ELSE IF ChainIdMismatch(tx, Network.chainId)
    THEN {Fail("ProviderError"), Fail("ChainIdMismatch")}
    ELSE IF ConflictingFeeFields(tx)
    THEN {Fail("ProviderError"), Fail("ConflictingFeeFields")}
    ELSE {Fail("ProviderError"),
          Ok(FinishCustom(
                [copyRequest(tx) EXCEPT
                    !.nonce = OrElse(@, Some(Network.pendingNonce)),
                    !.gasLimit = OrElse(@, Some(Network.gasEstimate)),
                    !.chainId = OrElse(@, Some(Network.chainId))], tx))}

\* the default builders: the custom-transaction path of section 4.1, with
\* the outcomes the provider allows
BuildCustom(tx, provider) ==
    IF provider = Null
    THEN {Fail("MissingProvider")}
    ELSE IF ChainIdMismatch(tx, Network.chainId)
    THEN {Fail("ProviderError"), Fail("ChainIdMismatch")}
    ELSE IF ConflictingFeeFields(tx)
    THEN {Fail("ProviderError"), Fail("ConflictingFeeFields")}
    ELSE {Fail("ProviderError"),
          Ok([FinishCustom(
                [copyRequest(tx) EXCEPT
                    !.nonce = OrElse(@, Some(Network.pendingNonce)),
                    !.gasLimit = OrElse(@, Some(Network.gasEstimate)),
                    !.chainId = OrElse(@, Some(Network.chainId))], tx)
              EXCEPT !.gasPrice = Some(Network.gasPrice)])}

\* what a call of the builder can end with
BuilderOutcomes(builder, tx, secret, provider) ==
    IF builder = "custom" THEN {Ok(EmptyTx)}
    ELSE BuildCustom(tx, provider)

\* faulty variant: the keys sign in reverse order
SignPayloadReversed(signer, digest, secret) ==
    IF signer = "signPayloadWithECDSA"
    THEN <<EcdsaSign(secret[1], digest)>>
    ELSE [i \in 1..Len(secret) |-> EcdsaSign(secret[Len(secret) + 1 - i], digest)]

\* signPayloadWithECDSA / signPayloadWithMultipleECDSA: one 65-byte
\* signature per key, concatenated in the order of the keys
SignPayload(signer, digest, secret) ==
    IF signer = "signPayloadWithECDSA"
    THEN <<EcdsaSign(secret[1], digest)>>
    ELSE [i \in 1..Len(secret) |-> EcdsaSign(secret[i], digest)]

\* faulty variant: a query does not look for the provider
MissingProviderNever(account) == FALSE

\* checkProvider (lines 33-38)
MissingProvider(account) == account.provider = Null

CallIds == {1, 2}

IdleCall == [acct |-> 0, op |-> "none", pc |-> "idle", intent |-> Null,
             tx |-> EmptyTx,
             built |-> EmptyTx, populatedTx |-> EmptyTx, digest |-> Null,
             signature |-> Null, bytes |-> Null, err |-> Null]

AccountOps == {"signTransaction", "sendTransaction"}

\* the intents that are translated into a request and sent
IntentOps == {"transfer", "withdraw"}

\* the methods that end in sendTransaction's broadcast
SendingOps == {"sendTransaction"} \cup IntentOps

AccountInit ==
    /\ \E signer \in SignerConfigs, provider \in {Null, Some("providerA")} :
           accounts = <<SmartAccount(signer, provider)>>
    /\ connects = <<>>
    /\ calls = [c \in CallIds |-> IdleCall]
    /\ builderLog = <<>>
    /\ signerLog = <<>>
    /\ broadcastLog = <<>>
    /\ queryLog = <<>>

\* the caller invokes connect(provider) on account i
Connect(i, provider) ==
    /\ Len(accounts) < MaxAccounts
    /\ accounts' = Append(accounts, connect(accounts[i], provider))
    /\ connects' = Append(connects, [receiver |-> i, provider |-> provider,
                                     result |-> Len(accounts) + 1])
    /\ UNCHANGED <<calls, builderLog, signerLog, broadcastLog, queryLog>>
    /\ UNCHANGED wvars
    /\ UNCHANGED svars

\* call c throws e
AccountThrow(c, e) ==
    calls' = [calls EXCEPT ![c].pc = "failed", ![c].err = Some(e)]

\* faulty variant: sendTransaction looks for the provider only when it
\* broadcasts
AccountCallNoCheck(c, a, op, tx) ==
    /\ calls[c].pc = "idle"
    /\ calls' = [calls EXCEPT ![c] = [IdleCall EXCEPT
                     !.acct = a, !.op = op, !.tx = tx, !.pc = "populate"]]
    /\ UNCHANGED <<accounts, connects, builderLog, signerLog, broadcastLog,
                   queryLog>>
    /\ UNCHANGED wvars
    /\ UNCHANGED svars

\* the caller invokes signTransaction(tx) or sendTransaction(tx) on account
\* a; sendTransaction first takes the provider it will broadcast through
\* (line 161)
AccountCall(c, a, op, tx) ==
    /\ calls[c].pc = "idle"
    /\ IF op = "sendTransaction" /\ MissingProvider(accounts[a])
       THEN calls' = [calls EXCEPT ![c] = [IdleCall EXCEPT
                         !.acct = a, !.op = op, !.tx = tx,
                         !.pc = "failed", !.err = Some("MissingProvider")]]
       ELSE calls' = [calls EXCEPT ![c] = [IdleCall EXCEPT
                         !.acct = a, !.op = op, !.tx = tx, !.pc = "populate"]]
    /\ UNCHANGED <<accounts, connects, builderLog, signerLog, broadcastLog,
                   queryLog>>
    /\ UNCHANGED wvars
    /\ UNCHANGED svars

\* faulty variant: `from` is always the account's address
BuilderRequestOwnFrom(this, tx) == [tx EXCEPT !.from = Some(this.address)]

\* lines 130-133: the request handed to the builder, `from` defaulted to
\* the account's address
BuilderRequest(this, tx) == [tx EXCEPT !.from = OrElse(@, Some(this.address))]

\* faulty variant: the request is read from a slot the calls share
AccountPopulateShared(c) ==
    /\ calls[c].pc = "populate"
    /\ LET this == accounts[calls[c].acct]
           other == CHOOSE d \in CallIds : d # c
           latest == IF calls[other].pc # "idle" THEN other ELSE c
           arg == BuilderRequest(this, calls[latest].tx)
       IN  \E r \in BuilderOutcomes(this.transactionBuilder, arg,
                                    this.secret, this.provider) :
               /\ builderLog' = Append(builderLog,
                      [call |-> c, builder |-> this.transactionBuilder,
                       tx |-> arg, secret |-> this.secret,
                       provider |-> this.provider, result |-> r])
               /\ IF r.err # Null
                  THEN AccountThrow(c, Val(r.err))
                  ELSE calls' = [calls EXCEPT
                           ![c].built = r.tx,
                           ![c].populatedTx = r.tx,
                           ![c].pc = IF calls[c].op = "populateTransaction"
                                     THEN "done" ELSE "digest"]
    /\ UNCHANGED <<accounts, connects, signerLog, broadcastLog, queryLog>>
    /\ UNCHANGED wvars
    /\ UNCHANGED svars

\* populateTransaction (lines 128-137): the bound builder is handed the
\* request with `from` defaulted, the secret and the provider; what it
\* returns goes to the caller or on to signTransaction
AccountPopulate(c) ==
    /\ calls[c].pc = "populate"
    /\ LET this == accounts[calls[c].acct]
           arg == BuilderRequest(this, calls[c].tx)
       IN  \E r \in BuilderOutcomes(this.transactionBuilder, arg,
                                    this.secret, this.provider) :
               /\ builderLog' = Append(builderLog,
                      [call |-> c, builder |-> this.transactionBuilder,
                       tx |-> arg, secret |-> this.secret,
                       provider |-> this.provider, result |-> r])
               /\ IF r.err # Null
                  THEN AccountThrow(c, Val(r.err))
                  ELSE calls' = [calls EXCEPT
                           ![c].built = r.tx,
                           ![c].populatedTx = r.tx,
                           ![c].pc = IF calls[c].op = "populateTransaction"
                                     THEN "done" ELSE "digest"]
    /\ UNCHANGED <<accounts, connects, signerLog, broadcastLog, queryLog>>
    /\ UNCHANGED wvars
    /\ UNCHANGED svars

\* faulty variant: the payload signer is invoked before the digest is
\* looked at
AccountDigestUnchecked(c) ==
    /\ calls[c].pc = "digest"
    /\ LET this == accounts[calls[c].acct]
           populatedTxHash == getSignedDigest(calls[c].populatedTx)
       IN  /\ signerLog' = Append(signerLog,
                  [call |-> c, signer |-> this.payloadSigner,
                   digest |-> populatedTxHash,
                   secret |-> this.secret, provider |-> this.provider])
           /\ IF populatedTxHash = Null
              THEN AccountThrow(c, "MissingChainId")
              ELSE calls' = [calls EXCEPT ![c].digest = populatedTxHash,
                                          ![c].pc = "signing"]
    /\ UNCHANGED <<accounts, connects, builderLog, broadcastLog, queryLog>>
    /\ UNCHANGED wvars
    /\ UNCHANGED svars

\* lines 147-151: the digest of the populated transaction is computed and
\* the payload signer is invoked with it
AccountDigest(c) ==
    /\ calls[c].pc = "digest"
    /\ LET this == accounts[calls[c].acct]
           populatedTxHash == getSignedDigest(calls[c].populatedTx)
       IN  IF populatedTxHash = Null
           THEN AccountThrow(c, "MissingChainId") /\ UNCHANGED signerLog
           ELSE /\ calls' = [calls EXCEPT ![c].digest = populatedTxHash,
                                          ![c].pc = "signing"]
                /\ signerLog' = Append(signerLog,
                       [call |-> c, signer |-> this.payloadSigner,
                        digest |-> Val(populatedTxHash),
                        secret |-> this.secret, provider |-> this.provider])
    /\ UNCHANGED <<accounts, connects, builderLog, broadcastLog, queryLog>>
    /\ UNCHANGED wvars
    /\ UNCHANGED svars

\* lines 149-153: the signer's result becomes customData.customSignature
\* and the transaction is serialized
AccountSigned(c) ==
    /\ calls[c].pc = "signing"
    /\ LET this == accounts[calls[c].acct]
           sig == SignPayload(this.payloadSigner, Val(calls[c].digest),
                              this.secret)
           populatedTx == WithSignature(calls[c].populatedTx, sig)
       IN  calls' = [calls EXCEPT
               ![c].populatedTx = populatedTx,
               ![c].signature = Some(sig),
               ![c].bytes = Some(serializeEip712(populatedTx)),
               ![c].pc = IF calls[c].op \in SendingOps
                         THEN "broadcast" ELSE "done"]
    /\ UNCHANGED <<accounts, connects, builderLog, signerLog, broadcastLog,
                   queryLog>>
    /\ UNCHANGED wvars
    /\ UNCHANGED svars

\* faulty variant: a failed broadcast is tried again
AccountBroadcastRetry(c) ==
    /\ calls[c].pc = "broadcast"
    /\ broadcastLog' = Append(broadcastLog,
           [call |-> c, provider |-> accounts[calls[c].acct].provider,
            bytes |-> Val(calls[c].bytes)])
    /\ \/ calls' = [calls EXCEPT ![c].pc = "done"]
       \/ Len(broadcastLog) < 2 /\ UNCHANGED calls
    /\ UNCHANGED <<accounts, connects, builderLog, signerLog, queryLog>>
    /\ UNCHANGED wvars
    /\ UNCHANGED svars

\* lines 161-163: the signed transaction is broadcast
AccountBroadcast(c) ==
    /\ calls[c].pc = "broadcast"
    /\ broadcastLog' = Append(broadcastLog,
           [call |-> c, provider |-> accounts[calls[c].acct].provider,
            bytes |-> Val(calls[c].bytes)])
    /\ \/ calls' = [calls EXCEPT ![c].pc = "done"]
       \/ AccountThrow(c, "ProviderError")
    /\ UNCHANGED <<accounts, connects, builderLog, signerLog, queryLog>>
    /\ UNCHANGED wvars
    /\ UNCHANGED svars

\* the balance and nonce queries of an account
QueryOps == {"getBalance", "getAllBalances", "getDeploymentNonce"}

\* the provider operation a query ends in; getDeploymentNonce is a contract
\* call that the account, as the contract's runner, hands to its provider
QueryOperation(op) ==
    CASE op = "getBalance" -> "getBalance"
      [] op = "getAllBalances" -> "getAllAccountBalances"
      [] op = "getDeploymentNonce" -> "call"

\* the runner of a contract call is a signer: the base signer's call()
\* needs a provider ("missing provider")
RunnerMissingProvider(account) == account.provider = Null

\* getBalance / getAllBalances / getDeploymentNonce (lines 98-122) on
\* account a, up to the provider call
AccountQuery(c, a, op) ==
    /\ calls[c].pc = "idle"
    /\ LET this == accounts[a]
           missing == IF op = "getDeploymentNonce"
                      THEN RunnerMissingProvider(this)
                      ELSE MissingProvider(this)
       IN  IF missing
           THEN /\ calls' = [calls EXCEPT ![c] = [IdleCall EXCEPT
                               !.acct = a, !.op = op,
                               !.pc = "failed", !.err = Some("MissingProvider")]]
                /\ UNCHANGED queryLog
           ELSE /\ calls' = [calls EXCEPT ![c] = [IdleCall EXCEPT
                               !.acct = a, !.op = op, !.pc = "query"]]
                /\ queryLog' = Append(queryLog,
                       [call |-> c, provider |-> this.provider,
                        operation |-> QueryOperation(op),
                        address |-> this.address])
    /\ UNCHANGED <<accounts, connects, builderLog, signerLog, broadcastLog>>
    /\ UNCHANGED wvars
    /\ UNCHANGED svars

\* the provider answers the query, or fails
QueryReturn(c) ==
    /\ calls[c].pc = "query"
    /\ \/ calls' = [calls EXCEPT ![c].pc = "done"]
       \/ AccountThrow(c, "ProviderError")
    /\ UNCHANGED <<accounts, connects, builderLog, signerLog, broadcastLog,
                   queryLog>>
    /\ UNCHANGED wvars
    /\ UNCHANGED svars


\* the length in bytes of a signature, a sequence of ECDSA signatures
ByteLength(signature) == ECDSA_SIGNATURE_LENGTH * Len(signature)

\* MultisigECDSASmartAccount.create (lines 269-281)
MultisigECDSASmartAccount(address, secret, provider) ==
    SmartAccount([address |-> address, secret |-> secret,
                  payloadSigner |-> Some("signPayloadWithMultipleECDSA"),
                  transactionBuilder |-> Some("populateTransactionMultisig")],
                 provider)

\* the ordered key sequences a multisig account is created with
KeySequences == UNION {[1..n -> {OWNER1_KEY, OWNER2_KEY}] : n \in 1..MaxKeys}

\* the messages handed to signMessage
Messages == {"Hello World!", "Bye"}

\* ethers hashMessage: collision free, so the digest is what was hashed
hashMessage(message) == [message |-> message]

\* signMessage (lines 169-171): the payload signer signs the message hash
AccountSignMessage(c, a, message) ==
    /\ calls[c].pc = "idle"
    /\ LET this == accounts[a]
           digest == hashMessage(message)
       IN  /\ signerLog' = Append(signerLog,
                  [call |-> c, signer |-> this.payloadSigner,
                   digest |-> digest, secret |-> this.secret,
                   provider |-> this.provider])
           /\ calls' = [calls EXCEPT ![c] = [IdleCall EXCEPT
                  !.acct = a, !.op = "signMessage", !.pc = "done",
                  !.digest = Some(digest),
                  !.signature = Some(SignPayload(this.payloadSigner, digest,
                                                 this.secret))]]
    /\ UNCHANGED <<accounts, connects, builderLog, broadcastLog, queryLog>>
    /\ UNCHANGED wvars
    /\ UNCHANGED svars

\* the token of the tests
TOKEN == "0x841c43Fa5d8fFfdB9efE3358906f7578d8700Dd4"

\* the transfer and withdrawal intents a caller passes
Intents == [to : {RECEIVER}, amount : {7000000, 5}, token : {Null, Some(TOKEN)}]

\* faulty variant: the intent's recipient is passed as the sender
TranslatorRequestWrongFrom(this, transaction) ==
    [from |-> transaction.to, to |-> transaction.to,
     amount |-> transaction.amount, token |-> transaction.token]

\* lines 220-223 and 247-250: the intent with `from` the account's address
TranslatorRequest(this, transaction) ==
    [from |-> this.address, to |-> transaction.to,
     amount |-> transaction.amount, token |-> transaction.token]

\* provider.getTransferTx / getWithdrawTx: the request that carries out
\* the intent, a plain value transfer or a call of the token or the bridge
TranslateIntent(op, request) ==
    IF op = "transfer"
    THEN IF request.token = Null
         THEN [EmptyTx EXCEPT !.from = Some(request.from),
                              !.to = Some(request.to),
                              !.value = Some(request.amount)]
         ELSE [EmptyTx EXCEPT !.from = Some(request.from),
                              !.to = request.token,
                              !.data = Some("transfer(to, amount)")]
    ELSE IF request.token = Null
         THEN [EmptyTx EXCEPT !.from = Some(request.from),
                              !.to = Some("L2BaseToken"),
                              !.value = Some(request.amount),
                              !.data = Some("withdraw(to)")]
         ELSE [EmptyTx EXCEPT !.from = Some(request.from),
                              !.to = Some("L2Bridge"),
                              !.data = Some("withdraw(to, token, amount)")]

\* transfer / withdraw (lines 212-252) up to the translator call: the
\* provider is checked, then asked to translate the intent
AccountIntent(c, a, op, transaction) ==
    /\ calls[c].pc = "idle"
    /\ LET this == accounts[a]
           request == TranslatorRequest(this, transaction)
       IN  IF MissingProvider(this)
           THEN /\ calls' = [calls EXCEPT ![c] = [IdleCall EXCEPT
                               !.acct = a, !.op = op,
                               !.pc = "failed", !.err = Some("MissingProvider")]]
                /\ UNCHANGED queryLog
           ELSE /\ calls' = [calls EXCEPT ![c] = [IdleCall EXCEPT
                               !.acct = a, !.op = op, !.pc = "translate",
                               !.intent = Some(request)]]
                /\ queryLog' = Append(queryLog,
                       [call |-> c, provider |-> this.provider,
                        operation |-> IF op = "transfer" THEN "getTransferTx"
                                      ELSE "getWithdrawTx",
                        address |-> request.from])
    /\ UNCHANGED <<accounts, connects, builderLog, signerLog, broadcastLog>>
    /\ UNCHANGED wvars
    /\ UNCHANGED svars

\* the translator answers or fails; its request goes to sendTransaction,
\* which takes the provider it will broadcast through (line 161)
AccountTranslated(c) ==
    /\ calls[c].pc = "translate"
    /\ \/ AccountThrow(c, "ProviderError")
       \/ IF MissingProvider(accounts[calls[c].acct])
          THEN AccountThrow(c, "MissingProvider")
          ELSE calls' = [calls EXCEPT
                   ![c].tx = TranslateIntent(calls[c].op, Val(calls[c].intent)),
                   ![c].pc = "populate"]
    /\ UNCHANGED <<accounts, connects, builderLog, signerLog, broadcastLog,
                   queryLog>>
    /\ UNCHANGED wvars
    /\ UNCHANGED svars

(***************************************************************************)
(* EIP712Signer static methods                                             *)
(***************************************************************************)
\* customData naming a paymaster
PaymasterMeta ==
    [EmptyMeta EXCEPT !.paymasterParams =
        Some([paymaster |-> "0xa222f0c183AFA73a8Bc1AFb48D34C88c9Bf7A174",
              paymasterInput |-> "0x8c5a3445"])]

\* the transactions the static methods are applied to: the sparse
\* requests, also without recipient and also with a paymaster
SignerInputs ==
    {[r EXCEPT !.to = to, !.customData = meta] :
        r \in Requests, to \in {Null, Some(RECEIVER)},
        meta \in {Null, Some(PaymasterMeta)} \cup {Some(m) : m \in MetaChoices}}

\* no static method is called
NoSigner ==
    /\ sOp = "none"
    /\ sTx = EmptyTx
    /\ sOut = Null
    /\ sErr = Null

SignerInit ==
    /\ sOp = "none"
    /\ sTx \in SignerInputs
    /\ sOut = Null
    /\ sErr = Null

\* EIP712Signer.getSignInput(sTx)
GetSignInput ==
    /\ sOp = "none"
    /\ sOp' = "getSignInput"
    /\ sOut' = Some(getSignInput(sTx))
    /\ UNCHANGED <<sTx, sErr>>
    /\ UNCHANGED <<wvars, avars>>

\* EIP712Signer.getSignedDigest(sTx)
GetSignedDigest ==
    /\ sOp = "none"
    /\ sOp' = "getSignedDigest"
    /\ LET digest == getSignedDigest(sTx)
       IN  IF digest = Null
           THEN sErr' = Some("MissingChainId") /\ UNCHANGED sOut
           ELSE sOut' = digest /\ UNCHANGED sErr
    /\ UNCHANGED sTx
    /\ UNCHANGED <<wvars, avars>>

(***************************************************************************)
(* Specifications                                                          *)
(***************************************************************************)
\* no SmartAccount exists
NoAccounts ==
    /\ accounts = <<>>
    /\ connects = <<>>
    /\ calls = [c \in CallIds |-> IdleCall]
    /\ builderLog = <<>>
    /\ signerLog = <<>>
    /\ broadcastLog = <<>>
    /\ queryLog = <<>>

\* no Wallet call is made
NoWallet ==
    /\ wProvider = FALSE
    /\ feeData = [gasPrice |-> Null, maxFeePerGas |-> Null,
                  maxPriorityFeePerGas |-> Null]
    /\ wOp = "none"
    /\ wPc = "unused"
    /\ wInSign = FALSE
    /\ wPath = "none"
    /\ heap = [req |-> EmptyTx, ptx |-> EmptyTx]
    /\ cur = "req"
    /\ req0 = EmptyTx
    /\ wPop = EmptyTx
    /\ wLog = <<>>
    /\ wErr = Null
    /\ wResult = Null
    /\ wBytes = Null
    /\ wSent = <<>>

\* a Wallet, connected or not, on a network with some fee data
Init == WalletInit /\ NoAccounts /\ NoSigner

\* a SmartAccount of one of the three configurations, connected or not
InitAccount == AccountInit /\ NoWallet /\ NoSigner

\* Wallet.populateTransaction on every request
PopulateNext ==
    \/ \E r \in Requests : WalletCall("populateTransaction", r)
    \/ PopulateEnter
    \/ GetNonce
    \/ EstimateGas
    \/ GetNetwork
    \/ GetFeeData
    \/ FinishCustomStep
    \/ GetGasPrice

PopulateSpec == Init /\ [][PopulateNext]_vars

\* Wallet.signTransaction on every request
SignNext ==
    \/ \E r \in Requests : WalletCall("signTransaction", r)
    \/ SignEnter
    \/ SignGasPrice
    \/ SuperSign
    \/ PopulateEnter
    \/ GetNonce
    \/ EstimateGas
    \/ GetNetwork
    \/ GetFeeData
    \/ FinishCustomStep
    \/ GetGasPrice
    \/ Eip712Sign

SignSpec == Init /\ [][SignNext]_vars

\* Wallet.sendTransaction on every request
SendNext ==
    \/ \E r \in Requests : WalletCall("sendTransaction", r)
    \/ PopulateEnter
    \/ GetNonce
    \/ EstimateGas
    \/ GetNetwork
    \/ GetFeeData
    \/ FinishCustomStep
    \/ GetGasPrice
    \/ SignEnter
    \/ SignGasPrice
    \/ SuperSign
    \/ Eip712Sign
    \/ Broadcast

SendSpec == Init /\ [][SendNext]_vars

\* SmartAccount.connect from every account built so far
ConnectNext ==
    \E i \in 1..Len(accounts), provider \in {Null} \cup {Some(p) : p \in Providers} :
        Connect(i, provider)

ConnectSpec == InitAccount /\ [][ConnectNext]_vars

\* one signTransaction or sendTransaction call on a SmartAccount
AccountNext ==
    \/ \E op \in AccountOps, tx \in Requests : AccountCall(1, 1, op, tx)
    \/ AccountPopulate(1)
    \/ AccountDigest(1)
    \/ AccountSigned(1)
    \/ AccountBroadcast(1)

AccountSpec == InitAccount /\ [][AccountNext]_vars

\* one populateTransaction call on a SmartAccount
BuildNext ==
    \/ \E tx \in Requests : AccountCall(1, 1, "populateTransaction", tx)
    \/ AccountPopulate(1)

BuildSpec == InitAccount /\ [][BuildNext]_vars

\* connect and one balance or nonce query on any account built so far
QueryNext ==
    \/ \E i \in 1..Len(accounts),
          provider \in {Null} \cup {Some(p) : p \in Providers} :
           Connect(i, provider)
    \/ \E a \in 1..Len(accounts), op \in QueryOps : AccountQuery(1, a, op)
    \/ QueryReturn(1)

QuerySpec == InitAccount /\ [][QueryNext]_vars

\* a transaction handed to one of the EIP712Signer static methods
InitSigner == SignerInit /\ NoWallet /\ NoAccounts

SignerNext == GetSignInput \/ GetSignedDigest

SignerSpec == InitSigner /\ [][SignerNext]_vars

\* an account created by MultisigECDSASmartAccount.create
MultisigInit ==
    /\ \E secret \in KeySequences, provider \in {Null, Some("providerA")} :
           accounts = <<MultisigECDSASmartAccount(ADDRESS, secret, provider)>>
    /\ connects = <<>>
    /\ calls = [c \in CallIds |-> IdleCall]
    /\ builderLog = <<>>
    /\ signerLog = <<>>
    /\ broadcastLog = <<>>
    /\ queryLog = <<>>

InitMultisig == MultisigInit /\ NoWallet /\ NoSigner

\* one signMessage or signTransaction call on it
MultisigNext ==
    \/ \E message \in Messages : AccountSignMessage(1, 1, message)
    \/ \E tx \in {r \in Requests : Cardinality(SetFields(r)) <= 1} :
           AccountCall(1, 1, "signTransaction", tx)
    \/ AccountPopulate(1)
    \/ AccountDigest(1)
    \/ AccountSigned(1)

MultisigSpec == InitMultisig /\ [][MultisigNext]_vars

\* one transfer, withdraw or sendTransaction call on a SmartAccount
IntentNext ==
    \/ \E op \in IntentOps, transaction \in Intents :
           AccountIntent(1, 1, op, transaction)
    \/ \E tx \in {r \in Requests : Cardinality(SetFields(r)) <= 1} :
           AccountCall(1, 1, "sendTransaction", tx)
    \/ AccountTranslated(1)
    \/ AccountPopulate(1)
    \/ AccountDigest(1)
    \/ AccountSigned(1)
    \/ AccountBroadcast(1)

IntentSpec == InitAccount /\ [][IntentNext]_vars

\* two signTransaction or sendTransaction calls on one SmartAccount, their
\* steps interleaved at the awaits
ConcurrentNext ==
    \/ \E c \in CallIds, op \in AccountOps,
          tx \in {r \in Requests :
                     /\ SetFields(r) \subseteq {"from", "value", "chainId"}
                     /\ Cardinality(SetFields(r)) <= 1} :
           AccountCall(c, 1, op, tx)
    \/ \E c \in CallIds : AccountPopulate(c)
    \/ \E c \in CallIds : AccountDigest(c)
    \/ \E c \in CallIds : AccountSigned(c)
    \/ \E c \in CallIds : AccountBroadcast(c)

ConcurrentSpec == InitAccount /\ [][ConcurrentNext]_vars

(***************************************************************************)
(* Properties of Wallet.populateTransaction (PopulateSpec)                 *)
(***************************************************************************)
\* populateTransaction returned a transaction to the caller
Populated == wOp = "populateTransaction" /\ wPc = "done"

\* the request the caller made takes the custom-transaction path
CustomRequest(r) == r.customData # Null \/ r.type = Some(EIP712_TX_TYPE)

\* the request mixes legacy and EIP-1559 fee fields
MixedFees(r) ==
    \/ r.gasPrice # Null /\ (r.maxFeePerGas # Null \/ r.maxPriorityFeePerGas # Null
                             \/ r.type = Some(2))
    \/ r.type \in {Some(0), Some(1)}
       /\ (r.maxFeePerGas # Null \/ r.maxPriorityFeePerGas # Null)

\* C3: a request with neither type nor customData never takes the custom
\* path (no getGasPrice, no custom defaults), and the transaction returned
\* has type 0 with nonce, gas limit, chain id and gas price kept when
\* supplied and otherwise filled from the pending nonce, the gas estimate,
\* the network and the network's fee data, and no EIP-1559 field.
C3_LegacyDefault ==
    (wOp = "populateTransaction" /\ req0.type = Null /\ req0.customData = Null)
    => /\ wPath # "custom"
       /\ \A i \in 1..Len(wLog) : wLog[i] # "getGasPrice"
       /\ Populated =>
            LET t == Val(wResult)
            IN  /\ t.type = Some(0)
                /\ t.nonce = OrElse(req0.nonce, Some(Network.pendingNonce))
                /\ t.gasLimit = OrElse(req0.gasLimit, Some(Network.gasEstimate))
                /\ t.chainId = Some(Network.chainId)
                /\ t.gasPrice = OrElse(req0.gasPrice, feeData.gasPrice)
                /\ t.gasPrice # Null
                /\ t.maxFeePerGas = Null /\ t.maxPriorityFeePerGas = Null
                /\ t.customData = Null
                /\ t.value = req0.value /\ t.data = req0.data

C3_Witness ==
    /\ Populated
    /\ req0.type = Null /\ req0.customData = Null /\ req0.gasPrice = Null
    /\ feeData.maxFeePerGas # Null /\ feeData.maxPriorityFeePerGas # Null

\* C4: a successful populateTransaction of a request that carries
\* customData, or whose type is the custom type, returns the custom type,
\* whatever type the caller supplied.
C4_CustomType ==
    (Populated /\ CustomRequest(req0)) => Val(wResult).type = Some(EIP712_TX_TYPE)

C4_Witness ==
    Populated /\ req0.customData # Null /\ req0.type = Some(2)

\* C5: on the custom path each of nonce, gasLimit, chainId, value, data and
\* the customData fields the caller supplied is returned unchanged and each
\* absent one is defaulted; from is the wallet's address when absent.
C5_CustomDefaults ==
    (Populated /\ CustomRequest(req0)) =>
        LET t == Val(wResult)
            given == MetaOf(req0)
            meta == MetaOf(t)
        IN  /\ t.nonce = OrElse(req0.nonce, Some(Network.pendingNonce))
            /\ t.gasLimit = OrElse(req0.gasLimit, Some(Network.gasEstimate))
            /\ t.chainId = OrElse(req0.chainId, Some(Network.chainId))
            /\ t.value = OrElse(req0.value, Some(0))
            /\ t.data = OrElse(req0.data, Some("0x"))
            /\ t.from = OrElse(req0.from, Some(ADDRESS))
            /\ t.to = req0.to
            /\ t.customData # Null
            /\ meta.gasPerPubdata =
                   OrElse(given.gasPerPubdata, Some(DEFAULT_GAS_PER_PUBDATA_LIMIT))
            /\ meta.factoryDeps = OrElse(given.factoryDeps, Some(<<>>))
            /\ meta.paymasterParams = given.paymasterParams
            /\ meta.customSignature = given.customSignature

C5_Witness ==
    /\ Populated /\ CustomRequest(req0)
    /\ req0.value # Null /\ req0.nonce = Null /\ req0.customData = Null

\* C6: on the custom path the gas price returned is the one getGasPrice()
\* answered during the call, also when the caller supplied a gas price.
C6_GasPriceReplaced ==
    (Populated /\ CustomRequest(req0)) =>
        /\ Val(wResult).gasPrice = Some(Network.gasPrice)
        /\ wLog[Len(wLog)] = "getGasPrice"

C6_Witness ==
    Populated /\ CustomRequest(req0) /\ req0.gasPrice # Null

\* C8: a request that mixes legacy and EIP-1559 fee fields is never
\* populated: the call does not get past the fee-field check, returns no
\* transaction, and fails with ConflictingFeeFields unless an earlier step
\* (provider, from, chain id) failed first.
C8_ConflictingFees ==
    (wOp = "populateTransaction" /\ MixedFees(req0)) =>
        /\ wResult = Null
        /\ wPc \notin {"getFeeData", "finishCustom", "getGasPrice", "done"}
        /\ \A i \in 1..Len(wLog) : wLog[i] \notin {"getFeeData", "getGasPrice"}
        /\ wPc = "failed" =>
              \/ wErr = Some("ConflictingFeeFields")
              \/ wErr = Some("MissingProvider") /\ ~wProvider
              \/ wErr = Some("FromAddressMismatch")
                     /\ ~CustomRequest(req0) /\ req0.from = Some(RECEIVER)
              \/ wErr = Some("ChainIdMismatch") /\ req0.chainId = Some(1)
              \/ wErr = Some("ProviderError") /\ wLog # <<>>

C8_Witness ==
    /\ wOp = "populateTransaction" /\ MixedFees(req0) /\ CustomRequest(req0)
    /\ wPc = "failed" /\ wErr = Some("ConflictingFeeFields")

\* C9: on the custom path a supplied chain id that differs from the
\* network's ends the call with ChainIdMismatch once the network has
\* answered, and returns nothing; an equal one never does, and is returned.
C9_ChainId ==
    (wOp = "populateTransaction" /\ CustomRequest(req0)) =>
        /\ (req0.chainId # Null /\ req0.chainId # Some(Network.chainId)) =>
              /\ wResult = Null
              /\ wPc \notin {"getFeeData", "finishCustom", "getGasPrice", "done"}
              /\ wPc = "failed" =>
                    \/ wErr = Some("ChainIdMismatch")
                    \/ wErr = Some("MissingProvider") /\ ~wProvider
                    \/ wErr = Some("ProviderError")
        /\ req0.chainId = Some(Network.chainId) =>
              /\ wErr # Some("ChainIdMismatch")
              /\ Populated => Val(wResult).chainId = req0.chainId

C9_Witness ==
    /\ wOp = "populateTransaction" /\ CustomRequest(req0)
    /\ req0.chainId = Some(1)
    /\ wPc = "failed" /\ wErr = Some("ChainIdMismatch")

(***************************************************************************)
(* Properties of Wallet.signTransaction (SignSpec)                         *)
(***************************************************************************)
\* C7: signTransaction of a request whose explicit `from` is not the
\* wallet's address fails and produces no signed payload, on the custom
\* path as on the legacy/EIP-1559 path.
C7_FromMismatchRejected ==
    (wOp = "signTransaction" /\ req0.from # Null /\ req0.from # Some(ADDRESS))
    => /\ wBytes = Null
       /\ wPc # "done"

(***************************************************************************)
(* Properties of SmartAccount (AccountSpec, ConnectSpec)                   *)
(***************************************************************************)
BuilderCallsOf(c) == SelectSeq(builderLog, LAMBDA e : e.call = c)
SignerCallsOf(c) == SelectSeq(signerLog, LAMBDA e : e.call = c)
BroadcastsOf(c) == SelectSeq(broadcastLog, LAMBDA e : e.call = c)

\* C1: signTransaction populates, then computes the digest, then invokes
\* the payload signer, then serializes: the signer is invoked at most once,
\* after the builder returned and with the digest of what it returned; the
\* transaction serialized is the builder's result with only
\* customData.customSignature set, to the signer's result.
C1_SignOrder ==
    \A c \in CallIds :
        LET call == calls[c]
            this == accounts[call.acct]
            signed == SignerCallsOf(c)
        IN  /\ Len(signed) <= 1
            /\ Len(signed) = 1 =>
                  /\ Len(BuilderCallsOf(c)) = 1
                  /\ call.built.chainId # Null
                  /\ signed[1].digest =
                         TypedDataHash(Val(call.built.chainId),
                                       getSignInput(call.built))
                  /\ signed[1].secret = this.secret
                  /\ signed[1].signer = this.payloadSigner
            /\ call.bytes # Null =>
                  /\ Len(signed) = 1
                  /\ \A f \in TxFields \ {"customData"} :
                         call.populatedTx[f] = call.built[f]
                  /\ MetaOf(call.populatedTx) =
                         [MetaOf(call.built) EXCEPT !.customSignature =
                             Some(SignPayload(this.payloadSigner,
                                              signed[1].digest, this.secret))]
                  /\ call.bytes = Some(serializeEip712(call.populatedTx))
            /\ call.bytes = Null => call.populatedTx = call.built

C1_Witness ==
    /\ calls[1].op = "signTransaction" /\ calls[1].pc = "done"
    /\ calls[1].bytes # Null
    /\ MetaOf(calls[1].built).gasPerPubdata = Some(800)

\* C2: sendTransaction broadcasts at most once, after signTransaction
\* returned and exactly the bytes it returned; the builder and the signer
\* are invoked at most once; a failure of a step ends the call with that
\* step's error and nothing after it happens.
C2_SendOnce ==
    \A c \in CallIds :
        LET call == calls[c]
            sent == BroadcastsOf(c)
        IN  /\ Len(sent) <= 1
            /\ Len(BuilderCallsOf(c)) <= 1
            /\ Len(SignerCallsOf(c)) <= 1
            /\ Len(sent) = 1 =>
                  /\ call.op = "sendTransaction"
                  /\ call.pc \in {"done", "failed"}
                  /\ call.bytes = Some(sent[1].bytes)
                  /\ sent[1].provider = accounts[call.acct].provider
                  /\ sent[1].provider # Null
                  /\ Len(SignerCallsOf(c)) = 1
            /\ (call.op = "sendTransaction" /\ call.pc = "done") => Len(sent) = 1
            /\ call.pc = "failed" =>
                  \/ /\ call.err = Some("MissingProvider")
                     /\ Len(SignerCallsOf(c)) = 0 /\ Len(sent) = 0
                  \/ /\ call.err \in {Some("ChainIdMismatch"),
                                      Some("ConflictingFeeFields")}
                     /\ Len(BuilderCallsOf(c)) = 1
                     /\ Len(SignerCallsOf(c)) = 0 /\ Len(sent) = 0
                  \/ /\ call.err = Some("MissingChainId")
                     /\ Len(BuilderCallsOf(c)) = 1
                     /\ Len(SignerCallsOf(c)) = 0 /\ Len(sent) = 0
                  \/ /\ call.err = Some("ProviderError")
                     /\ Len(BuilderCallsOf(c)) = 1
                     /\ Len(SignerCallsOf(c)) = Len(sent)

C2_Witness ==
    /\ calls[1].op = "sendTransaction" /\ calls[1].pc = "failed"
    /\ calls[1].err = Some("ProviderError")
    /\ Len(BroadcastsOf(1)) = 1

\* C10: connect(p) returns a new SmartAccount with the receiver's address,
\* secret, payload signer and transaction builder and with provider p, and
\* leaves every existing instance as it was.
C10_NewInstance ==
    \A k \in 1..Len(connects) :
        LET this == accounts[connects[k].receiver]
            new == accounts[connects[k].result]
        IN  /\ connects[k].result > connects[k].receiver
            /\ new.address = this.address
            /\ new.secret = this.secret
            /\ new.payloadSigner = this.payloadSigner
            /\ new.transactionBuilder = this.transactionBuilder
            /\ new.provider = connects[k].provider

C10_Connect ==
    [][/\ Len(accounts') = Len(accounts) + 1
       /\ \A i \in 1..Len(accounts) : accounts'[i] = accounts[i]
       /\ C10_NewInstance']_vars

C10_Witness ==
    \E k \in 1..Len(connects) :
        /\ connects[k].provider = Null
        /\ accounts[connects[k].receiver].provider # Null
        /\ accounts[connects[k].result].payloadSigner =
               "signPayloadWithMultipleECDSA"

QueriesOf(c) == SelectSeq(queryLog, LAMBDA e : e.call = c)

\* C11: a balance or nonce query on an account without provider, such as
\* one obtained by connect(null), fails with MissingProvider and no provider
\* is called; on an account with a provider, whatever was connected from it
\* since, the query never fails with MissingProvider and asks that provider
\* once, for the account's address.
C11_DetachedQueries ==
    \A c \in CallIds :
        LET call == calls[c]
            this == accounts[call.acct]
        IN  call.op \in QueryOps =>
              /\ this.provider = Null =>
                    /\ call.pc = "failed"
                    /\ call.err = Some("MissingProvider")
                    /\ queryLog = <<>>
              /\ this.provider # Null =>
                    /\ call.err # Some("MissingProvider")
                    /\ Len(QueriesOf(c)) = 1
                    /\ QueriesOf(c)[1].provider = this.provider
                    /\ QueriesOf(c)[1].address = this.address
                    /\ QueriesOf(c)[1].operation = QueryOperation(call.op)

C11_Witness ==
    \E k \in 1..Len(connects) :
        /\ connects[k].provider = Null
        /\ accounts[connects[k].receiver].provider # Null
        /\ calls[1].acct = connects[k].result
        /\ calls[1].op = "getDeploymentNonce"
        /\ calls[1].pc = "failed"

\* C12: populateTransaction invokes the account's transaction builder
\* exactly once, with the account's secret and provider and with the
\* caller's request in which only an absent `from` is replaced, by the
\* account's address; it returns what the builder returned and fails as
\* the builder failed.
C12_Delegates ==
    \A c \in CallIds :
        LET call == calls[c]
            this == accounts[call.acct]
            built == BuilderCallsOf(c)
        IN  call.op = "populateTransaction" =>
              /\ call.pc = "populate" => Len(built) = 0
              /\ call.pc \in {"done", "failed"} =>
                    /\ Len(built) = 1
                    /\ built[1].builder = this.transactionBuilder
                    /\ built[1].secret = this.secret
                    /\ built[1].provider = this.provider
                    /\ \A f \in TxFields \ {"from"} : built[1].tx[f] = call.tx[f]
                    /\ built[1].tx.from = IF call.tx.from # Null THEN call.tx.from
                                          ELSE Some(this.address)
                    /\ call.err = built[1].result.err
                    /\ call.pc = "done" <=> built[1].result.err = Null
                    /\ call.pc = "done" => call.populatedTx = built[1].result.tx

C12_Witness ==
    /\ calls[1].op = "populateTransaction" /\ calls[1].pc = "done"
    /\ calls[1].tx.from = Some(RECEIVER)
    /\ accounts[1].transactionBuilder = "populateTransactionMultisig"

\* C13: an account with the default single-key builder populates a request
\* that has only `to` and `value` into a transaction of the custom type
\* with from the account's address, the pending nonce, the network's chain
\* id, the provider's gas price, a gas limit, empty data, customData of the
\* default gasPerPubdata and no factory dependencies, and the caller's
\* value and recipient.
C13_DefaultBuilder ==
    \A c \in CallIds :
        LET call == calls[c]
            this == accounts[call.acct]
            t == call.populatedTx
        IN  (/\ call.op = "populateTransaction" /\ call.pc = "done"
             /\ this.transactionBuilder = "populateTransaction"
             /\ SetFields(call.tx) = {"value"})
            => /\ t.type = Some(EIP712_TX_TYPE)
               /\ t.from = Some(this.address)
               /\ t.to = call.tx.to
               /\ t.value = call.tx.value
               /\ t.nonce = Some(Network.pendingNonce)
               /\ t.chainId = Some(Network.chainId)
               /\ t.gasPrice = Some(Network.gasPrice)
               /\ t.gasLimit # Null
               /\ t.data = Some("0x")
               /\ t.customData =
                      Some([EmptyMeta EXCEPT
                               !.gasPerPubdata = Some(DEFAULT_GAS_PER_PUBDATA_LIMIT),
                               !.factoryDeps = Some(<<>>)])
               /\ t.maxFeePerGas = Null /\ t.maxPriorityFeePerGas = Null

C13_Witness ==
    /\ calls[1].op = "populateTransaction" /\ calls[1].pc = "done"
    /\ accounts[1].transactionBuilder = "populateTransaction"
    /\ accounts[1].secret = <<PRIVATE_KEY>>
    /\ SetFields(calls[1].tx) = {"value"}

(***************************************************************************)
(* Properties of the EIP712Signer static methods (SignerSpec)              *)
(***************************************************************************)
SignInputFields ==
    {"txType", "from", "to", "gasLimit", "gasPerPubdataByteLimit",
     "maxFeePerGas", "maxPriorityFeePerGas", "paymaster", "nonce", "value",
     "data", "factoryDeps", "paymasterInput"}

\* the value of an optional field, d when it is absent
Given(f, d) == IF f = Null THEN d ELSE Val(f)

\* C14: getSignInput returns, for every transaction, a struct of exactly
\* the thirteen fields: what the transaction gives is taken over; absent
\* gasLimit, value, nonce and fees are 0, absent data and paymasterInput
\* empty bytes, absent factoryDeps the empty sequence, absent paymaster,
\* from and to the zero address, absent gasPerPubdata the default; an
\* absent maxFeePerGas is the gasPrice and an absent maxPriorityFeePerGas
\* is the maxFeePerGas of the result.
C14_SignInputTotal ==
    sOp = "getSignInput" =>
        /\ sOut # Null
        /\ sErr = Null
        /\ LET out == Val(sOut)
               meta == IF sTx.customData = Null THEN EmptyMeta
                       ELSE Val(sTx.customData)
           IN  /\ DOMAIN out = SignInputFields
               /\ out.txType = Given(sTx.type, 0)
               /\ out.from = Given(sTx.from, ZeroAddress)
               /\ out.to = Given(sTx.to, ZeroAddress)
               /\ out.gasLimit = Given(sTx.gasLimit, 0)
               /\ out.nonce = Given(sTx.nonce, 0)
               /\ out.value = Given(sTx.value, 0)
               /\ out.data = Given(sTx.data, "0x")
               /\ out.gasPerPubdataByteLimit =
                      Given(meta.gasPerPubdata, DEFAULT_GAS_PER_PUBDATA_LIMIT)
               /\ out.factoryDeps = Given(meta.factoryDeps, <<>>)
               /\ out.paymaster =
                      IF meta.paymasterParams = Null THEN ZeroAddress
                      ELSE Val(meta.paymasterParams).paymaster
               /\ out.paymasterInput =
                      IF meta.paymasterParams = Null THEN "0x"
                      ELSE Val(meta.paymasterParams).paymasterInput
               /\ out.maxFeePerGas =
                      Given(sTx.maxFeePerGas, Given(sTx.gasPrice, 0))
               /\ out.maxPriorityFeePerGas =
                      Given(sTx.maxPriorityFeePerGas, out.maxFeePerGas)
               /\ (/\ sTx.gasPrice # Null /\ sTx.maxFeePerGas = Null
                   /\ sTx.maxPriorityFeePerGas = Null)
                  => /\ out.maxFeePerGas = Val(sTx.gasPrice)
                     /\ out.maxPriorityFeePerGas = Val(sTx.gasPrice)

C14_Witness ==
    /\ sOp = "getSignInput" /\ sOut # Null
    /\ SetFields(sTx) = {"gasPrice"}
    /\ sTx.to = Null

\* C15: getSignedDigest fails with MissingChainId exactly when the
\* transaction has no chain id; otherwise it returns the typed-data hash of
\* the transaction's sign input under the domain of that chain id.
C15_DigestNeedsChainId ==
    sOp = "getSignedDigest" =>
        /\ sTx.chainId = Null => sErr = Some("MissingChainId") /\ sOut = Null
        /\ sTx.chainId # Null =>
              /\ sErr = Null
              /\ sOut = Some(TypedDataHash(Val(sTx.chainId), getSignInput(sTx)))

C15_Witness ==
    /\ sOp = "getSignedDigest"
    /\ sTx.chainId = Null /\ sTx.type = Some(EIP712_TX_TYPE)
    /\ sErr = Some("MissingChainId")

(***************************************************************************)
(* Properties of the multisig account (MultisigSpec)                       *)
(***************************************************************************)
\* the single-key signatures of a digest under the first n keys of a
\* secret, concatenated in the order of the keys
RECURSIVE SingleKeySignatures(_, _, _)
SingleKeySignatures(digest, secret, n) ==
    IF n = 0 THEN <<>>
    ELSE SingleKeySignatures(digest, secret, n - 1)
         \o SignPayload("signPayloadWithECDSA", digest, <<secret[n]>>)

\* C16: a signature produced by an account that
\* MultisigECDSASmartAccount.create made from N keys is 65 * N bytes long
\* and is the concatenation, in the order of the keys, of the single-key
\* signatures of the same digest; signTransaction puts exactly it into
\* customData.customSignature.
C16_MultisigSignature ==
    \A c \in CallIds :
        LET call == calls[c]
            this == accounts[call.acct]
        IN  call.signature # Null =>
              LET sig == Val(call.signature)
                  N == Len(this.secret)
              IN  /\ this.payloadSigner = "signPayloadWithMultipleECDSA"
                  /\ Len(SignerCallsOf(c)) = 1
                  /\ SignerCallsOf(c)[1].digest = Val(call.digest)
                  /\ SignerCallsOf(c)[1].secret = this.secret
                  /\ ByteLength(sig) = 65 * N
                  /\ sig = SingleKeySignatures(Val(call.digest), this.secret, N)
                  /\ call.op = "signTransaction" =>
                        MetaOf(call.populatedTx).customSignature = Some(sig)

C16_Witness ==
    /\ calls[1].op = "signTransaction" /\ calls[1].pc = "done"
    /\ calls[1].signature # Null
    /\ accounts[1].secret = <<OWNER2_KEY, OWNER1_KEY, OWNER2_KEY>>

(***************************************************************************)
(* Properties of the fee inference (PopulateSpec)                          *)
(***************************************************************************)
\* the type of the request as the fee inference sees it: a request without
\* type and customData was made legacy before
TypeSeen == IF req0.type = Null /\ req0.customData = Null THEN Some(0)
            ELSE req0.type

\* the inner populate has returned: to the custom path's continuation, or
\* through the base path to the caller
InnerReturned ==
    /\ wOp = "populateTransaction"
    /\ \/ wPc = "finishCustom"
       \/ wPath = "base" /\ wPc = "done"

\* what it returned
InnerTx == IF wPc = "finishCustom" THEN wPop ELSE Val(wResult)

FeeDataAsked == \E i \in 1..Len(wLog) : wLog[i] = "getFeeData"

\* the call failed in the fee inference, after the fee data had arrived
FailedAfterFeeData ==
    /\ wPc = "failed"
    /\ wLog # <<>>
    /\ wLog[Len(wLog)] = "getFeeData"
    /\ wErr # Some("ProviderError")

NetworkHasEip1559 ==
    feeData.maxFeePerGas # Null /\ feeData.maxPriorityFeePerGas # Null

\* C17: a request with both maxFeePerGas and maxPriorityFeePerGas, no
\* gasPrice and type 2 or no type is populated without asking for the fee
\* data: the inner populate returns type 2 with both values as supplied and
\* no gasPrice, and the two values reach the caller unchanged.
C17_FullyFormed ==
    (/\ wOp = "populateTransaction"
     /\ TypeSeen \in {Null, Some(2)}
     /\ req0.maxFeePerGas # Null /\ req0.maxPriorityFeePerGas # Null
     /\ req0.gasPrice = Null)
    => /\ ~FeeDataAsked
       /\ wPc # "getFeeData"
       /\ wErr # Some("UnsupportedOperation")
       /\ InnerReturned =>
             /\ InnerTx.type = Some(2)
             /\ InnerTx.maxFeePerGas = req0.maxFeePerGas
             /\ InnerTx.maxPriorityFeePerGas = req0.maxPriorityFeePerGas
             /\ InnerTx.gasPrice = Null
       /\ Populated =>
             /\ Val(wResult).maxFeePerGas = req0.maxFeePerGas
             /\ Val(wResult).maxPriorityFeePerGas = req0.maxPriorityFeePerGas

C17_Witness ==
    /\ wOp = "populateTransaction" /\ wPc = "finishCustom"
    /\ req0.type = Null /\ req0.customData # Null
    /\ req0.maxFeePerGas # Null /\ req0.maxPriorityFeePerGas # Null

\* C18: for a request of type 0 or 1 the fee data is asked for; the inner
\* populate returns the caller's gasPrice when one was supplied and the
\* network's otherwise, with the type kept; when the network reports no
\* gasPrice the call fails with UnsupportedOperation, also when the caller
\* supplied one, and for no other reason does it fail so.
C18_LegacyFees ==
    (wOp = "populateTransaction" /\ TypeSeen \in {Some(0), Some(1)})
    => /\ InnerReturned =>
             /\ FeeDataAsked
             /\ feeData.gasPrice # Null
             /\ InnerTx.type = TypeSeen
             /\ InnerTx.gasPrice = IF req0.gasPrice # Null THEN req0.gasPrice
                                   ELSE feeData.gasPrice
             /\ InnerTx.maxFeePerGas = Null
             /\ InnerTx.maxPriorityFeePerGas = Null
       /\ feeData.gasPrice = Null =>
             /\ wPc \notin {"finishCustom", "getGasPrice", "done"}
             /\ FailedAfterFeeData => wErr = Some("UnsupportedOperation")
       /\ feeData.gasPrice # Null => ~FailedAfterFeeData
       /\ wErr = Some("UnsupportedOperation") =>
             feeData.gasPrice = Null /\ FailedAfterFeeData

C18_Witness ==
    /\ wOp = "populateTransaction" /\ wPc = "finishCustom"
    /\ req0.type = Some(1) /\ req0.customData # Null
    /\ req0.gasPrice # Null

\* C19: for a request without type on a network whose fee data has both
\* EIP-1559 fields, the inner populate returns type 2; a supplied gasPrice
\* g is removed and is both maxFeePerGas and maxPriorityFeePerGas;
\* otherwise a supplied EIP-1559 field is kept and a missing one is the
\* fee data's; the inference does not fail.
C19_Upgrade ==
    (wOp = "populateTransaction" /\ TypeSeen = Null /\ NetworkHasEip1559)
    => /\ ~FailedAfterFeeData
       /\ wErr # Some("UnsupportedOperation")
       /\ InnerReturned =>
             /\ InnerTx.type = Some(2)
             /\ InnerTx.gasPrice = Null
             /\ IF req0.gasPrice # Null
                THEN /\ InnerTx.maxFeePerGas = req0.gasPrice
                     /\ InnerTx.maxPriorityFeePerGas = req0.gasPrice
                ELSE /\ InnerTx.maxFeePerGas =
                            IF req0.maxFeePerGas # Null
                            THEN req0.maxFeePerGas ELSE feeData.maxFeePerGas
                     /\ InnerTx.maxPriorityFeePerGas =
                            IF req0.maxPriorityFeePerGas # Null
                            THEN req0.maxPriorityFeePerGas
                            ELSE feeData.maxPriorityFeePerGas

C19_Witness ==
    /\ wOp = "populateTransaction" /\ wPc = "finishCustom"
    /\ TypeSeen = Null /\ NetworkHasEip1559
    /\ req0.gasPrice # Null
    /\ FeeDataAsked

\* the caller supplied an EIP-1559 fee field
SuppliedEip1559 == req0.maxFeePerGas # Null \/ req0.maxPriorityFeePerGas # Null

\* the fee data is needed: the request is not fully formed
NotFullyFormed == req0.maxFeePerGas = Null \/ req0.maxPriorityFeePerGas = Null

\* the inference on a network without EIP-1559 fee data: legacy with the
\* gas price filled, or UnsupportedOperation
Downgraded ==
    /\ InnerReturned =>
          /\ feeData.gasPrice # Null
          /\ ~SuppliedEip1559
          /\ InnerTx.type = Some(0)
          /\ InnerTx.gasPrice = IF req0.gasPrice # Null THEN req0.gasPrice
                                ELSE feeData.gasPrice
    /\ (feeData.gasPrice = Null \/ SuppliedEip1559) =>
          /\ wPc \notin {"finishCustom", "getGasPrice", "done"}
          /\ FailedAfterFeeData => wErr = Some("UnsupportedOperation")
    /\ (feeData.gasPrice # Null /\ ~SuppliedEip1559) => ~FailedAfterFeeData

\* C20 as stated: for a request without type or of type 2, on a network
\* whose fee data lacks an EIP-1559 field, the transaction becomes type 0
\* with a missing gasPrice filled when the network reports a gasPrice and
\* the caller supplied no EIP-1559 field, and the call fails with
\* UnsupportedOperation otherwise.
C20_DowngradeAlsoType2 ==
    (/\ wOp = "populateTransaction"
     /\ TypeSeen \in {Null, Some(2)}
     /\ NotFullyFormed
     /\ ~NetworkHasEip1559)
    => Downgraded

\* C20, amended: the same for a request without type; a request of type 2
\* keeps type 2, keeps a supplied EIP-1559 field, takes a missing one from
\* the fee data as it is (absent when the fee data lacks it), and the
\* inference does not fail.
C20_Downgrade ==
    (/\ wOp = "populateTransaction"
     /\ NotFullyFormed
     /\ ~NetworkHasEip1559)
    => /\ TypeSeen = Null => Downgraded
       /\ TypeSeen = Some(2) =>
             /\ ~FailedAfterFeeData
             /\ wErr # Some("UnsupportedOperation")
             /\ InnerReturned =>
                   /\ FeeDataAsked
                   /\ InnerTx.type = Some(2)
                   /\ InnerTx.gasPrice = Null
                   /\ InnerTx.maxFeePerGas =
                          IF req0.maxFeePerGas # Null
                          THEN req0.maxFeePerGas ELSE feeData.maxFeePerGas
                   /\ InnerTx.maxPriorityFeePerGas =
                          IF req0.maxPriorityFeePerGas # Null
                          THEN req0.maxPriorityFeePerGas
                          ELSE feeData.maxPriorityFeePerGas

C20_Witness ==
    /\ wOp = "populateTransaction"
    /\ TypeSeen = Null /\ ~NetworkHasEip1559 /\ feeData.gasPrice # Null
    /\ req0.maxFeePerGas # Null
    /\ wPc = "failed" /\ wErr = Some("UnsupportedOperation")

(***************************************************************************)
(* Properties of transfer, withdraw and sendTransaction (IntentSpec)       *)
(***************************************************************************)
\* C21: transfer and withdraw ask the provider's translator once, with
\* from the account's address; the request it answers is the one the
\* builder is handed, and it is signed and broadcast at most once, exactly
\* once when the call returns; a call in which the translator failed, or
\* has not answered yet, has invoked no builder, produced no signature and
\* broadcast nothing.
C21_IntentSent ==
    \A c \in CallIds :
        LET call == calls[c]
            this == accounts[call.acct]
            asked == QueriesOf(c)
            built == BuilderCallsOf(c)
            signed == SignerCallsOf(c)
            sent == BroadcastsOf(c)
        IN  call.op \in IntentOps =>
              /\ Len(asked) <= 1 /\ Len(built) <= 1
              /\ Len(signed) <= 1 /\ Len(sent) <= 1
              /\ Len(asked) = 1 =>
                    /\ asked[1].operation = IF call.op = "transfer"
                                            THEN "getTransferTx" ELSE "getWithdrawTx"
                    /\ asked[1].address = this.address
                    /\ asked[1].provider = this.provider
                    /\ Val(call.intent).from = this.address
              /\ Len(built) = 1 =>
                    /\ Len(asked) = 1
                    /\ built[1].tx = TranslateIntent(call.op, Val(call.intent))
                    /\ built[1].tx.from = Some(this.address)
              /\ Len(signed) = 1 => Len(built) = 1
              /\ Len(sent) = 1 =>
                    /\ Len(signed) = 1
                    /\ call.bytes = Some(sent[1].bytes)
              /\ call.pc = "done" => Len(sent) = 1
              /\ (call.pc \in {"translate", "failed"} /\ call.tx = EmptyTx) =>
                    /\ Len(built) = 0 /\ Len(signed) = 0 /\ Len(sent) = 0
                    /\ call.signature = Null /\ call.bytes = Null

C21_Witness ==
    /\ calls[1].op = "withdraw" /\ calls[1].pc = "done"
    /\ Val(calls[1].intent).token # Null
    /\ Len(BroadcastsOf(1)) = 1

(***************************************************************************)
(* Further properties of Wallet.populateTransaction (PopulateSpec)         *)
(***************************************************************************)
\* C22: on the custom path without provider, populateTransaction fails
\* with the missing-provider error at once: no provider operation was
\* made, no field was resolved, the request is as it was and nothing is
\* returned.
C22_NoProvider ==
    (wOp = "populateTransaction" /\ CustomRequest(req0) /\ ~wProvider)
    => /\ wPc \in {"populateTransaction", "failed"}
       /\ wPc = "failed" => wErr = Some("MissingProvider")
       /\ wLog = <<>>
       /\ wPop = EmptyTx
       /\ wResult = Null
       /\ heap.req = req0

C22_Witness ==
    /\ wOp = "populateTransaction" /\ CustomRequest(req0) /\ ~wProvider
    /\ req0.nonce = Null
    /\ wPc = "failed" /\ wErr = Some("MissingProvider")

\* the place of a provider operation in populateTransaction
OperationOrder(op) ==
    CASE op = "getNonce" -> 1
      [] op = "estimateGas" -> 2
      [] op = "getNetwork" -> 3
      [] op = "getFeeData" -> 4
      [] op = "getGasPrice" -> 5

Asked(op) == \E i \in 1..Len(wLog) : wLog[i] = op

\* the provider operations made so far are in order, each at most once,
\* and each lookup was made only for a field the request left out
LogOrdered ==
    /\ \A i, j \in 1..Len(wLog) :
           i < j => OperationOrder(wLog[i]) < OperationOrder(wLog[j])
    /\ Asked("getNonce") => req0.nonce = Null
    /\ Asked("estimateGas") => req0.gasLimit = Null
    /\ (Asked("estimateGas") \/ Asked("getNetwork")) =>
           (req0.nonce = Null => Asked("getNonce"))
    /\ Asked("getNetwork") => (req0.gasLimit = Null => Asked("estimateGas"))
    /\ (Asked("getFeeData") \/ Asked("getGasPrice")) => Asked("getNetwork")
    /\ Asked("getFeeData") =>
           ~(/\ req0.type \in {Null, Some(2)}
             /\ req0.maxFeePerGas # Null /\ req0.maxPriorityFeePerGas # Null)
    /\ Asked("getGasPrice") =>
           (Asked("getFeeData") <=>
               ~(/\ req0.type \in {Null, Some(2)}
                 /\ req0.maxFeePerGas # Null /\ req0.maxPriorityFeePerGas # Null))
    /\ wPc = "done" => Asked("getGasPrice")
    /\ wErr \in {Some("ChainIdMismatch"), Some("ConflictingFeeFields")} =>
           wLog[Len(wLog)] = "getNetwork"
    /\ wErr = Some("UnsupportedOperation") => wLog[Len(wLog)] = "getFeeData"

\* C29: in a custom-path populateTransaction the provider operations are
\* made in the order getNonce, estimateGas, getNetwork, getFeeData,
\* getGasPrice, each at most once, the first two only for an absent field
\* and getFeeData not for a fully formed EIP-1559 request; once the call
\* has failed or returned no provider operation follows.
C29_ProviderOrder ==
    [][(wOp' = "populateTransaction" /\ CustomRequest(req0')) =>
          /\ LogOrdered'
          /\ wPc \in {"failed", "done"} => wLog' = wLog]_vars

C29_Witness ==
    /\ wOp = "populateTransaction" /\ CustomRequest(req0)
    /\ wPc = "failed" /\ wErr = Some("UnsupportedOperation")
    /\ wLog = <<"getNonce", "estimateGas", "getNetwork", "getFeeData">>

\* C26: a transaction returned by populateTransaction never has gasPrice
\* together with maxFeePerGas or maxPriorityFeePerGas.
C26_ExclusivePricing ==
    Populated =>
        ~(/\ Val(wResult).gasPrice # Null
          /\ \/ Val(wResult).maxFeePerGas # Null
             \/ Val(wResult).maxPriorityFeePerGas # Null)

(***************************************************************************)
(* Properties of Wallet.sendTransaction (SendSpec)                         *)
(***************************************************************************)
\* C25: in sendTransaction on the custom path, the populate that
\* signTransaction makes of the already populated transaction fails only
\* when the provider fails, and returns a transaction equal to the one it
\* was given.
C25_RepopulateIdempotent ==
    (wOp = "sendTransaction" /\ wInSign) =>
        /\ wPc = "failed" => wErr = Some("ProviderError")
        /\ wPc = "eip712Sign" => wPop = heap.ptx

(***************************************************************************)
(* Further properties of Wallet.signTransaction (SignSpec)                 *)
(***************************************************************************)
\* C23: once populateTransaction or signTransaction has returned or
\* failed, the caller's request object has the fields and values it had
\* when the call was made.
C23_RequestUnchanged ==
    wPc \in {"done", "failed"} => heap.req = req0

\* the request is a type-2 request without maxFeePerGas
NeedsMaxFee(r) == r.type = Some(2) /\ r.maxFeePerGas = Null

\* C24: signTransaction of a request without customData and not of the
\* custom type never populates it: no nonce, gas, network or fee-data
\* lookup is made; the only provider call is one getGasPrice, made exactly
\* for a type-2 request without maxFeePerGas; what is returned is the base
\* wallet's signature of the request as given, with that maxFeePerGas set
\* to the gas price.
C24_BaseSign ==
    (wOp = "signTransaction" /\ req0.customData = Null
     /\ req0.type # Some(EIP712_TX_TYPE))
    => /\ wPath = "none" /\ ~wInSign /\ wPop = EmptyTx
       /\ wLog \in {<<>>, <<"getGasPrice">>}
       /\ wLog # <<>> => NeedsMaxFee(req0)
       /\ wBytes # Null =>
             /\ NeedsMaxFee(req0) <=> wLog = <<"getGasPrice">>
             /\ wBytes = Some(BaseSerialize(PRIVATE_KEY,
                    IF NeedsMaxFee(req0)
                    THEN [req0 EXCEPT !.maxFeePerGas = Some(Network.gasPrice)]
                    ELSE req0))

C24_Witness ==
    /\ wOp = "signTransaction" /\ wPc = "done"
    /\ NeedsMaxFee(req0) /\ req0.customData = Null
    /\ req0.nonce = Null

(***************************************************************************)
(* Further properties of SmartAccount (IntentSpec, AccountSpec,            *)
(* ConcurrentSpec)                                                         *)
(***************************************************************************)
\* C27: sendTransaction, transfer and withdraw on an account without
\* provider fail with MissingProvider and neither the builder nor the
\* payload signer (nor the provider) is ever invoked for the call: no
\* signature and no bytes are produced.
C27_NoProviderNoSignature ==
    \A c \in CallIds :
        LET call == calls[c]
        IN  (call.op \in SendingOps /\ MissingProvider(accounts[call.acct]))
            => /\ call.pc = "failed"
               /\ call.err = Some("MissingProvider")
               /\ Len(BuilderCallsOf(c)) = 0
               /\ Len(SignerCallsOf(c)) = 0
               /\ Len(QueriesOf(c)) = 0
               /\ Len(BroadcastsOf(c)) = 0
               /\ call.signature = Null /\ call.bytes = Null

C27_Witness ==
    /\ calls[1].op = "withdraw" /\ calls[1].pc = "failed"
    /\ accounts[1].provider = Null
    /\ accounts[1].transactionBuilder = "custom"

\* the builder returned to call c a transaction without chainId
BuiltWithoutChainId(c) ==
    /\ Len(BuilderCallsOf(c)) = 1
    /\ BuilderCallsOf(c)[1].result.err = Null
    /\ BuilderCallsOf(c)[1].result.tx.chainId = Null

\* C28: when the builder returns a transaction without chainId, the call
\* fails with MissingChainId as soon as the digest is asked for, the
\* payload signer is never invoked and nothing is broadcast.
C28_MissingChainId ==
    \A c \in CallIds :
        LET call == calls[c]
        IN  BuiltWithoutChainId(c)
            => /\ call.pc \in {"digest", "failed"}
               /\ call.pc = "failed" => call.err = Some("MissingChainId")
               /\ Len(SignerCallsOf(c)) = 0
               /\ Len(BroadcastsOf(c)) = 0
               /\ call.signature = Null /\ call.bytes = Null

C28_Witness ==
    /\ calls[1].op = "sendTransaction" /\ calls[1].pc = "failed"
    /\ calls[1].err = Some("MissingChainId")
    /\ BuiltWithoutChainId(1)
    /\ accounts[1].provider # Null

\* what call c holds was computed from its own request alone
OwnResults(c) ==
    LET call == calls[c]
        this == accounts[call.acct]
        built == BuilderCallsOf(c)
        signed == SignerCallsOf(c)
        sent == BroadcastsOf(c)
    IN  /\ \A i \in 1..Len(built) :
               /\ built[i].tx = BuilderRequest(this, call.tx)
               /\ built[i].secret = this.secret
               /\ built[i].provider = this.provider
               /\ built[i].result.err = Null =>
                      call.built = built[i].result.tx
        /\ \A i \in 1..Len(signed) :
               /\ call.built.chainId # Null
               /\ signed[i].digest = TypedDataHash(Val(call.built.chainId),
                                                   getSignInput(call.built))
               /\ signed[i].secret = this.secret
        /\ call.signature # Null =>
               /\ Len(signed) = 1
               /\ call.signature = Some(SignPayload(this.payloadSigner,
                                            signed[1].digest, this.secret))
               /\ call.bytes = Some(serializeEip712(
                      WithSignature(call.built, Val(call.signature))))
        /\ \A i \in 1..Len(sent) : Some(sent[i].bytes) = call.bytes

\* C30: under every interleaving of two signTransaction/sendTransaction
\* calls on one SmartAccount, each call's builder is handed its own
\* request, its signature is computed over the digest of its own populated
\* transaction and its payload is that transaction with that signature;
\* no step changes the account's address, secret, provider or strategies.
C30_Isolated ==
    [][/\ accounts' = accounts
       /\ \A c \in CallIds : OwnResults(c)']_vars

C30_Witness ==
    /\ calls[1].pc = "done" /\ calls[2].pc = "done"
    /\ calls[1].tx # calls[2].tx
    /\ calls[1].bytes # Null /\ calls[2].bytes # Null
    /\ calls[1].bytes # calls[2].bytes
    /\ Len(signerLog) = 2 /\ signerLog[1].call = 2
    /\ Len(builderLog) = 2 /\ builderLog[1].call = 1

====
